---- MODULE Spec2Model ----
(***************************************************************************)
(* Review Gate: the filesystem rendezvous between the MCP server and the   *)
(* Cursor extension (src/review_gate_mcp/ipc.py, server.py).               *)
(*                                                                         *)
(* The server is one asyncio event loop: a handler runs without            *)
(* interruption from one await to the next, so each action below is the    *)
(* code between two awaits.  The extension is another process; it acts on  *)
(* the shared temp directory between any two server actions.               *)
(*                                                                         *)
(* Python strings are sequences of tokens (<<"review_", "0">> is           *)
(* "review_0"), so that concatenation and strip() are computed.  A JSON    *)
(* value is a tagged record, a JSON object a function from its keys.       *)
(*                                                                         *)
(* Time is counted in ticks of check_interval (0.1 s).  Each wait reads    *)
(* time.time() at the head of its loop; the model keeps, per call, the     *)
(* ticks slept since the wait's start_time.                                *)
(***************************************************************************)
EXTENDS Integers, Sequences, FiniteSets, TLC

VARIABLES
    pc,         \* pc[c]: where call c of review_gate_chat stands
    tid,        \* tid[c]: the millisecond call c made its trigger_id from (-1: none yet)
    elapsed,    \* elapsed[c]: time.time() - start_time in the wait loop c is in
    ackResult,  \* ackResult[c]: what wait_for_extension_acknowledgement returned
    ackFound,   \* ackFound[c]: the acknowledgment wait found a file at ack_file
    respResult, \* respResult[c]: what wait_for_user_input returned
    events,     \* events[c]: the phases call c went through, in order
    reply,      \* reply[c]: the result call_tool returns to the MCP client
    msClock,    \* int(time.time() * 1000), counted from the server's start
    fs,         \* the temp directory: path -> every existing file
    seen,       \* trigger ids the extension has read from a trigger file
    nResp,      \* response documents the extension has written
    nAck,       \* acknowledgment documents the extension has written
    shutdownRequested,  \* self.shutdown_requested
    monitor,    \* where _monitor_shutdown stands, and its cleanup of temp files
    store,      \* the SQLite file: schema objects, schema_migrations, conversations
    migrated,   \* history: how often each migration was executed and recorded
    init,       \* the calls of Database.initialize()
    dbs,        \* the module's _db, the server's self._db, each object's _initialized
    conv,       \* session and conversation of each call
    now,        \* the wall clock: datetime.now(), time.time()
    ret         \* what the last call of a Database method or store tool returned

callVars == <<pc, tid, elapsed, ackResult, ackFound, respResult, events, reply>>

extVars == <<seen, nResp, nAck>>

sysVars == <<shutdownRequested, monitor>>

storeVars == <<store, migrated, init, dbs, conv>>

apiVars == <<now, ret>>

vars == <<callVars, msClock, fs, extVars, sysVars, storeVars, apiVars>>

----------------------------------------------------------------------------
(* Bounds of the model *)

\* the clock stops after this many steps of ten seconds
MaxNow == 4

\* the messages a client of the Database adds, and the checkpoints it asks for
MaxStored == 2
MaxSnapshots == 1

\* the messages of a long conversation, and the checkpoints taken of it
MaxHistory == 51
MaxCheckpoints == 2

\* the clock of a client of the Database stops after this many steps
ShortClock == 1

\* ack wait timeout in ticks (server.py passes 30 s = 300 ticks; scaled)
AckTimeout == 2

\* response wait timeout in ticks (server.py passes 300 s = 3000 ticks; scaled)
ChatTimeout == 3

\* response documents the extension writes in one run
MaxResponses == 2

\* acknowledgment documents the extension writes in one run
MaxAcks == 1

\* the review_gate_chat calls of one run
Calls == {1, 2}

(* Program constants, in ticks of 0.1 s *)

CheckInterval == 1

ErrorBackoff == 5

----------------------------------------------------------------------------
(* Strings and JSON values *)

Whitespace == {" ", "\n"}

RECURSIVE LStrip(_)
LStrip(s) == IF s # <<>> /\ Head(s) \in Whitespace THEN LStrip(Tail(s)) ELSE s

RECURSIVE RStrip(_)
RStrip(s) ==
    IF s # <<>> /\ s[Len(s)] \in Whitespace
    THEN RStrip(SubSeq(s, 1, Len(s) - 1))
    ELSE s

\* str.strip()
Strip(s) == RStrip(LStrip(s))

JStr(s) == [t |-> "str", v |-> s]
JBool(b) == [t |-> "bool", v |-> b]
JList(l) == [t |-> "list", v |-> l]
JObj(o) == [t |-> "obj", v |-> o]
JNull == [t |-> "null"]

\* Python truth value of a decoded JSON value
Truthy(x) ==
    CASE x.t = "bool" -> x.v
      [] x.t = "str" -> x.v # <<>>
      [] x.t = "list" -> x.v # <<>>
      [] x.t = "obj" -> DOMAIN x.v # {}
      [] OTHER -> FALSE

\* dict.get(key, default)
Get(o, k, default) == IF k \in DOMAIN o THEN o[k] ELSE default

\* json.dumps escapes a character (ensure_ascii is on): the quote, the
\* backslash, the newline and a non-ASCII character ("U+00E9" stands for one)
JsonEscapes ==
    { <<"\"", "\\\"">>, <<"\\", "\\\\">>, <<"\n", "\\n">>, <<"U+00E9", "\\u00e9">> }

\* an encoder that cannot represent its input and puts "?" in its place
EscapeLossy(ch) == "?"

\* the text json.dumps writes for one character of a string
EscapeToken(ch) ==
    IF \E e \in JsonEscapes : e[1] = ch
    THEN (CHOOSE e \in JsonEscapes : e[1] = ch)[2]
    ELSE ch

\* the character json.loads reads from one (escaped) character of a string
UnescapeToken(ch) ==
    IF \E e \in JsonEscapes : e[2] = ch
    THEN (CHOOSE e \in JsonEscapes : e[2] = ch)[1]
    ELSE ch

RECURSIVE Dumps(_)
\* json.dumps(value, indent=2): the value with every string in its written
\* form (the layout of the text carries no information)
Dumps(x) ==
    CASE x.t = "str" -> [t |-> "str", v |-> [i \in DOMAIN x.v |-> EscapeToken(x.v[i])]]
      [] x.t = "list" -> [t |-> "list", v |-> [i \in DOMAIN x.v |-> Dumps(x.v[i])]]
      [] x.t = "obj" -> [t |-> "obj", v |-> [k \in DOMAIN x.v |-> Dumps(x.v[k])]]
      [] OTHER -> x

RECURSIVE Loads(_)
\* json.loads(text) of a text json.dumps wrote
Loads(x) ==
    CASE x.t = "str" -> [t |-> "str", v |-> [i \in DOMAIN x.v |-> UnescapeToken(x.v[i])]]
      [] x.t = "list" -> [t |-> "list", v |-> [i \in DOMAIN x.v |-> Loads(x.v[i])]]
      [] x.t = "obj" -> [t |-> "obj", v |-> [k \in DOMAIN x.v |-> Loads(x.v[k])]]
      [] OTHER -> x

\* a file's content: a JSON object, text that starts with "{" and is not
\* valid JSON, or any other text
JsonFile(o) == [fmt |-> "json", obj |-> o]
BadJsonFile == [fmt |-> "bad"]
TextFile(s) == [fmt |-> "text", raw |-> s]

\* the content of a file the server wrote with json.dumps
DumpedFile(x) == [fmt |-> "dumped", text |-> Dumps(x)]

----------------------------------------------------------------------------
(* The temp directory *)

\* f"review_{int(time.time() * 1000)}"
TriggerId(ms) == <<"review_", ToString(ms)>>

AckPath(t) == <<"review_gate_ack_">> \o t \o <<".json">>

TriggerPath == <<"review_gate_trigger.json">>

BackupPath(i) == <<"review_gate_trigger_", ToString(i), ".json">>

\* response_patterns, in the order the wait scans them
ResponsePatterns(t) ==
    << <<"review_gate_response_">> \o t \o <<".json">>,
       <<"review_gate_response.json">>,
       <<"mcp_response_">> \o t \o <<".json">>,
       <<"mcp_response.json">> >>

Exists(f, p) == p \in DOMAIN f

WriteText(f, p, content) == [q \in DOMAIN f \cup {p} |-> IF q = p THEN content ELSE f[q]]

Unlink(f, p) == [q \in DOMAIN f \ {p} |-> f[q]]

\* a file as the directory holds it.  replyTo is history only: the trigger
\* id the extension was answering when it wrote the document (<<>> for the
\* server's own files).
File(content, replyTo) == [doc |-> content, replyTo |-> replyTo]

\* a file call c of the server wrote (writer is history only)
Written(content, c) == [doc |-> content, replyTo |-> <<>>, writer |-> c]

----------------------------------------------------------------------------
(* wait_for_extension_acknowledgement: one acknowledgment file *)

\* json.loads(ack_file.read_text()) and data.get("acknowledged", False):
\* raised is TRUE when either raises (content that is not a JSON object)
AckParse(d) ==
    IF d.fmt = "json"
    THEN [raised |-> FALSE, ack_status |-> Get(d.obj, "acknowledged", JBool(FALSE))]
    ELSE [raised |-> TRUE, ack_status |-> JBool(FALSE)]

\* `if ack_status:`
AckAccepted(a) == Truthy(a.ack_status)

----------------------------------------------------------------------------
(* wait_for_user_input: one candidate file *)

IsImage(att) ==
    LET mime == Get(att.v, "mimeType", JStr(<<>>))
    IN  mime.v # <<>> /\ Head(mime.v) = "image/"

RECURSIVE Join(_)
\* ', '.join(descriptions)
Join(l) ==
    IF l = <<>> THEN <<>>
    ELSE IF Len(l) = 1 THEN Head(l)
    ELSE Head(l) \o <<", ">> \o Join(Tail(l))

RECURSIVE AttachmentDescriptions(_)
\* f"Image: {att.get('fileName', 'unknown')}" for every image attachment
AttachmentDescriptions(atts) ==
    IF atts = <<>> THEN <<>>
    ELSE IF IsImage(Head(atts))
         THEN << <<"Image: ">> \o Get(Head(atts).v, "fileName", JStr(<<"unknown">>)).v >>
              \o AttachmentDescriptions(Tail(atts))
         ELSE AttachmentDescriptions(Tail(atts))

\* the three keys looked up in the opposite order
PrimaryTextReversed(o) ==
    Get(o, "message", Get(o, "response", Get(o, "user_input", JStr(<<>>))))

\* data.get("user_input", data.get("response", data.get("message", "")))
PrimaryText(o) ==
    Get(o, "user_input", Get(o, "response", Get(o, "message", JStr(<<>>))))

\* a wait that verifies no trigger id
NeverMismatch(o, t) == FALSE

\* `if response_trigger_id and response_trigger_id != trigger_id`
TriggerMismatch(o, t) ==
    LET response_trigger_id == Get(o, "trigger_id", JStr(<<>>))
    IN  /\ Truthy(response_trigger_id)
        /\ ~(response_trigger_id.t = "str" /\ response_trigger_id.v = t)

\* user_input after the attachment descriptor is appended
WithAttachments(text, attachments) ==
    LET descriptions == AttachmentDescriptions(attachments.v)
    IN  IF Truthy(attachments) /\ descriptions # <<>>
        THEN text \o <<"\n", "\n", "Attached: ">> \o Join(descriptions)
        ELSE text

\* What the body of the for loop does with the content d of one existing
\* candidate while trigger id t is awaited:
\*   "skip"   the file is left as it is (trigger id mismatch, or an exception
\*            caught by one of the two inner except clauses)
\*   "unlink" the file is deleted and the scan goes on (empty user_input)
\*   "return" the file is deleted and (user_input, attachments) returned
ProcessResponse(d, t) ==
    LET skip == [act |-> "skip", user_input |-> <<>>, attachments |-> JList(<<>>)]
    IN
    CASE d.fmt = "bad" -> skip
      [] d.fmt = "text" ->
            LET user_input == Strip(d.raw)
            IN  [act |-> IF user_input # <<>> THEN "return" ELSE "unlink",
                 user_input |-> user_input, attachments |-> JList(<<>>)]
      [] d.fmt = "json" ->
            LET primary == PrimaryText(d.obj)
                attachments == Get(d.obj, "attachments", JList(<<>>))
            IN  IF primary.t # "str" THEN skip
                ELSE IF TriggerMismatch(d.obj, t) THEN skip
                ELSE LET user_input == WithAttachments(Strip(primary.v), attachments)
                     IN  [act |-> IF user_input # <<>> THEN "return" ELSE "unlink",
                          user_input |-> user_input, attachments |-> attachments]

NoInput == [kind |-> "none"]

Pending == [kind |-> "pending"]

RECURSIVE ScanFromStopping(_, _, _)
\* a scan that ends at the first file it skips (`break` where the code has
\* `continue`)
ScanFromStopping(i, f, t) ==
    IF i > Len(ResponsePatterns(t))
    THEN [fs |-> f, result |-> NoInput]
    ELSE
        LET p == ResponsePatterns(t)[i]
        IN  IF ~Exists(f, p) THEN ScanFromStopping(i + 1, f, t)
            ELSE
                LET r == ProcessResponse(f[p].doc, t)
                IN  CASE r.act = "skip" -> [fs |-> f, result |-> NoInput]
                      [] r.act = "unlink" -> ScanFromStopping(i + 1, Unlink(f, p), t)
                      [] r.act = "return" ->
                            [fs |-> Unlink(f, p),
                             result |-> [kind |-> "input", user_input |-> r.user_input,
                                         attachments |-> r.attachments,
                                         path |-> p, file |-> f[p]]]

RECURSIVE ScanFromKeeping(_, _, _)
\* a scan that returns a document and leaves it in place
ScanFromKeeping(i, f, t) ==
    IF i > Len(ResponsePatterns(t))
    THEN [fs |-> f, result |-> NoInput]
    ELSE
        LET p == ResponsePatterns(t)[i]
        IN  IF ~Exists(f, p) THEN ScanFromKeeping(i + 1, f, t)
            ELSE
                LET r == ProcessResponse(f[p].doc, t)
                IN  CASE r.act = "skip" -> ScanFromKeeping(i + 1, f, t)
                      [] r.act = "unlink" -> ScanFromKeeping(i + 1, Unlink(f, p), t)
                      [] r.act = "return" ->
                            [fs |-> f,
                             result |-> [kind |-> "input", user_input |-> r.user_input,
                                         attachments |-> r.attachments,
                                         path |-> p, file |-> f[p]]]

RECURSIVE ScanFrom(_, _, _)
\* the for loop over response_patterns from candidate i on, with the
\* directory f: the directory after it and what it returns (NoInput when the
\* loop ends without a return)
ScanFrom(i, f, t) ==
    IF i > Len(ResponsePatterns(t))
    THEN [fs |-> f, result |-> NoInput]
    ELSE
        LET p == ResponsePatterns(t)[i]
        IN  IF ~Exists(f, p) THEN ScanFrom(i + 1, f, t)
            ELSE
                LET r == ProcessResponse(f[p].doc, t)
                IN  CASE r.act = "skip" -> ScanFrom(i + 1, f, t)
                      [] r.act = "unlink" -> ScanFrom(i + 1, Unlink(f, p), t)
                      [] r.act = "return" ->
                            [fs |-> Unlink(f, p),
                             result |-> [kind |-> "input", user_input |-> r.user_input,
                                         attachments |-> r.attachments,
                                         path |-> p, file |-> f[p]]]

\* one pass of the for loop over response_patterns
Scan(f, t) == ScanFrom(1, f, t)

----------------------------------------------------------------------------
(* review_gate_chat: call_tool and _handle_review_gate_chat *)

\* the trigger_id of call c
TidOf(c) == TriggerId(tid[c])

\* the trigger document written to the canonical path
TriggerDoc(t) ==
    DumpedFile(JObj([system |-> JStr(<<"review-gate-v2">>),
                     data |-> JObj([tool |-> JStr(<<"review_gate_chat">>),
                                    title |-> JStr(<<"Review Gate V2 - ", "U+00E9">>),
                                    trigger_id |-> JStr(t)]),
                     active_window |-> JBool(TRUE),
                     immediate_activation |-> JBool(TRUE)]))

\* a backup document whose data is not the data of the call
BackupDocRetitled(i, t) ==
    DumpedFile(JObj([backup_id |-> JStr(<<ToString(i)>>),
                     system |-> JStr(<<"review-gate-v2">>),
                     data |-> JObj([tool |-> JStr(<<"review_gate_chat">>),
                                    title |-> JStr(<<"Review Gate">>),
                                    trigger_id |-> JStr(t)]),
                     immediate_activation |-> JBool(TRUE)]))

\* the backup document _create_backup_triggers writes
BackupDoc(i, t) ==
    DumpedFile(JObj([backup_id |-> JStr(<<ToString(i)>>),
                     system |-> JStr(<<"review-gate-v2">>),
                     data |-> JObj([tool |-> JStr(<<"review_gate_chat">>),
                                    title |-> JStr(<<"Review Gate V2 - ", "U+00E9">>),
                                    trigger_id |-> JStr(t)]),
                     immediate_activation |-> JBool(TRUE)]))

RECURSIVE CreateBackupTriggers(_, _, _, _)
\* _create_backup_triggers in call c: for i in range(3), from i on
CreateBackupTriggers(f, i, t, c) ==
    IF i >= 3 THEN f
    ELSE CreateBackupTriggers(WriteText(f, BackupPath(i), Written(BackupDoc(i, t), c)),
                              i + 1, t, c)

\* the results call_tool returns
UserResponse(user_input) ==
    [kind |-> "content", text |-> <<"User Response: ">> \o user_input]

TimeoutResponse ==
    [kind |-> "content",
     text |-> <<"TIMEOUT: ", "No user input received for review gate within 5 minutes">>]

TriggerFailedResponse ==
    [kind |-> "content", text |-> <<"ERROR: Failed to trigger ", "Review Gate popup">>]

\* call_tool's except clause
ToolFailedResponse ==
    [kind |-> "content", text |-> <<"ERROR: Tool ", "review_gate_chat", " failed: ">>]

Log(c, e) == [events EXCEPT ![c] = @ \o e]

Max(a, b) == IF a >= b THEN a ELSE b

Range(q) == {q[i] : i \in DOMAIN q}

\* the handler returns `result` to call_tool, whose return statement is next
Reply(c, result) ==
    /\ reply' = [reply EXCEPT ![c] = result]
    /\ pc' = [pc EXCEPT ![c] = "replied"]

None == "None"

\* a call whose session and conversation the model does not follow
Untracked == [tracked |-> FALSE, session |-> <<>>, id |-> <<>>, degraded |-> FALSE,
              fault |-> FALSE]

\* `trigger_id = f"review_{int(time.time() * 1000)}"` and the call of
\* trigger_cursor_popup_immediately up to its 100 ms sleep
BeginRendezvous(c) ==
    /\ tid' = [tid EXCEPT ![c] = msClock]
    /\ pc' = [pc EXCEPT ![c] = "pub_write"]
    /\ events' = Log(c, <<"called">>)
    /\ UNCHANGED <<elapsed, ackResult, ackFound, respResult, reply>>

\* call_tool up to the first await of trigger_cursor_popup_immediately: the
\* session and conversation are resolved (every store call there is inside
\* try/except), the trigger_id is made from the clock, and the publication
\* starts its 100 ms sleep
StartChat(c) ==
    /\ pc[c] = "idle"
    /\ BeginRendezvous(c)
    /\ UNCHANGED <<msClock, fs, extVars>>
    /\ UNCHANGED <<sysVars, storeVars, apiVars>>

\* trigger_file.write_text(...) after the sleep: it writes the canonical
\* document, or raises (the except clause sleeps 1 s and returns False, and
\* the handler returns the publish-failure text).  At least 100 ms have
\* passed since the call made its trigger_id.
PublishWrite(c) ==
    /\ pc[c] = "pub_write"
    /\ msClock' = Max(msClock, tid[c] + 1)
    /\ \E written \in BOOLEAN :
          IF written
          THEN /\ fs' = WriteText(fs, TriggerPath, Written(TriggerDoc(TidOf(c)), c))
               /\ pc' = [pc EXCEPT ![c] = "pub_exists"]
               /\ UNCHANGED <<events, reply>>
          ELSE /\ Reply(c, TriggerFailedResponse)
               /\ events' = Log(c, <<"publish_failed">>)
               /\ UNCHANGED fs
    /\ UNCHANGED <<tid, elapsed, ackResult, ackFound, respResult>>
    /\ UNCHANGED extVars
    /\ UNCHANGED <<sysVars, storeVars, apiVars>>

\* `if not trigger_file.exists(): return False`
PublishExists(c) ==
    /\ pc[c] = "pub_exists"
    /\ IF Exists(fs, TriggerPath)
       THEN /\ pc' = [pc EXCEPT ![c] = "pub_stat"]
            /\ UNCHANGED <<events, reply>>
       ELSE /\ Reply(c, TriggerFailedResponse)
            /\ events' = Log(c, <<"publish_failed">>)
    /\ UNCHANGED <<tid, elapsed, ackResult, ackFound, respResult>>
    /\ UNCHANGED <<msClock, fs, extVars>>
    /\ UNCHANGED <<sysVars, storeVars, apiVars>>

\* a handler that goes from the publication straight to the response wait
PublishFinishUnacknowledged(c) ==
    /\ pc[c] = "pub_stat"
    /\ fs' = CreateBackupTriggers(fs, 0, TidOf(c), c)
    /\ pc' = [pc EXCEPT ![c] = "resp"]
    /\ elapsed' = [elapsed EXCEPT ![c] = 0]
    /\ events' = Log(c, <<"published", "resp_start">>)
    /\ UNCHANGED <<tid, ackResult, ackFound, respResult, reply>>
    /\ UNCHANGED <<msClock, extVars>>
    /\ UNCHANGED <<sysVars, storeVars, apiVars>>

\* trigger_file.stat() (a file that is gone by now counts as consumed), the
\* backups, the 200 ms settle sleep and `return True`; the handler then calls
\* wait_for_extension_acknowledgement, which takes its start_time
PublishFinish(c) ==
    /\ pc[c] = "pub_stat"
    /\ fs' = CreateBackupTriggers(fs, 0, TidOf(c), c)
    /\ pc' = [pc EXCEPT ![c] = "ack"]
    /\ elapsed' = [elapsed EXCEPT ![c] = 0]
    /\ events' = Log(c, <<"published", "ack_start">>)
    /\ UNCHANGED <<tid, ackResult, ackFound, respResult, reply>>
    /\ UNCHANGED <<msClock, extVars>>
    /\ UNCHANGED <<sysVars, storeVars, apiVars>>

\* a handler that gives up when the acknowledgment wait returns False
AbortWithoutAck(c, ack_received) ==
    /\ ackResult' = [ackResult EXCEPT ![c] = IF ack_received THEN "true" ELSE "false"]
    /\ IF ack_received
       THEN /\ pc' = [pc EXCEPT ![c] = "resp"]
            /\ elapsed' = [elapsed EXCEPT ![c] = 0]
            /\ events' = Log(c, <<"ack_end", "resp_start">>)
            /\ UNCHANGED reply
       ELSE /\ Reply(c, TriggerFailedResponse)
            /\ events' = Log(c, <<"ack_end">>)
            /\ UNCHANGED elapsed

\* the handler between the return of wait_for_extension_acknowledgement and
\* the first await of wait_for_user_input(trigger_id, timeout=300): the
\* result is only logged, and the response wait takes its start_time
StartResponseWait(c, ack_received) ==
    /\ ackResult' = [ackResult EXCEPT ![c] = IF ack_received THEN "true" ELSE "false"]
    /\ pc' = [pc EXCEPT ![c] = "resp"]
    /\ elapsed' = [elapsed EXCEPT ![c] = 0]
    /\ events' = Log(c, <<"ack_end", "resp_start">>)
    /\ UNCHANGED reply

\* a sleep that lasts longer than asked
SleepLonger(c, d) == elapsed' = [elapsed EXCEPT ![c] = @ + d + ErrorBackoff]

\* a sleep during which the clock of the wait stands still
SleepNothing(c, d) == elapsed' = elapsed

\* await asyncio.sleep(d) at the end of an iteration of a wait loop
Sleep(c, d) == elapsed' = [elapsed EXCEPT ![c] = @ + d]

\* `while time.time() - start_time < timeout` is false
Expired(c, timeout) == ~(elapsed[c] < timeout)

\* one iteration of the loop of wait_for_extension_acknowledgement, from the
\* test of the while condition to the sleep (or the return)
AckPoll(c) ==
    /\ pc[c] = "ack"
    /\ LET ack_file == AckPath(TidOf(c))
       IN  IF Expired(c, AckTimeout)
           THEN /\ StartResponseWait(c, FALSE)
                /\ UNCHANGED <<fs, ackFound>>
           ELSE IF ~Exists(fs, ack_file)
           THEN /\ Sleep(c, CheckInterval)
                /\ UNCHANGED <<fs, ackFound, ackResult, pc, events, reply>>
           ELSE LET a == AckParse(fs[ack_file].doc)
                IN  /\ ackFound' = [ackFound EXCEPT ![c] = TRUE]
                    /\ IF a.raised
                       THEN /\ Sleep(c, ErrorBackoff)
                            /\ UNCHANGED <<fs, ackResult, pc, events, reply>>
                       ELSE /\ fs' = Unlink(fs, ack_file)
                            /\ IF AckAccepted(a)
                               THEN StartResponseWait(c, TRUE)
                               ELSE /\ Sleep(c, CheckInterval)
                                    /\ UNCHANGED <<ackResult, pc, events, reply>>
    /\ UNCHANGED <<tid, respResult>>
    /\ UNCHANGED <<msClock, extVars>>
    /\ UNCHANGED <<sysVars, storeVars, apiVars>>

\* some candidate path of trigger id t holds a file
AnyCandidate(f, t) ==
    \E i \in 1..Len(ResponsePatterns(t)) : Exists(f, ResponsePatterns(t)[i])

\* the values `self._db and conversation_id` may have for call c: either
\* one where the call's store is not followed, and that of self._db where it
\* is (conversation_id is never empty)
HasDatabase(c) == IF conv[c].tracked THEN {dbs.self # None} ELSE BOOLEAN

\* an UPDATE that matches no row
UpdateNoConversation(st, id, status) == st

\* `UPDATE conversations SET status = ? ... WHERE id = ?`
UpdateConversationStatus(st, id, status) ==
    IF id \in DOMAIN st.convs
    THEN [st EXCEPT !.convs[id].status = status]
    ELSE st

\* `await self._db.update_conversation_status(conversation_id, "timeout")`:
\* Database.execute re-raises whatever sqlite3 raises, the handler has no
\* try around the call, and call_tool's except clause turns the exception
\* into its own error text
TimeoutUpdate(c) ==
    /\ pc[c] = "timeout_update"
    /\ \E raised \in BOOLEAN :
          /\ Reply(c, IF raised THEN ToolFailedResponse ELSE TimeoutResponse)
          /\ store' = IF raised THEN store
                      ELSE UpdateConversationStatus(store, conv[c].id, "timeout")
    /\ UNCHANGED <<tid, elapsed, ackResult, ackFound, respResult, events>>
    /\ UNCHANGED <<msClock, fs, extVars>>
    /\ UNCHANGED <<sysVars, migrated, init, dbs, conv, apiVars>>

\* call_tool returns the result to the MCP client; the locals of the call
\* are gone
Return(c) ==
    /\ pc[c] = "replied"
    /\ pc' = [pc EXCEPT ![c] = "done"]
    /\ tid' = [tid EXCEPT ![c] = -1]
    /\ elapsed' = [elapsed EXCEPT ![c] = 0]
    /\ ackResult' = [ackResult EXCEPT ![c] = "none"]
    /\ ackFound' = [ackFound EXCEPT ![c] = FALSE]
    /\ respResult' = [respResult EXCEPT ![c] = Pending]
    /\ events' = [events EXCEPT ![c] = <<>>]
    /\ reply' = [reply EXCEPT ![c] = Pending]
    /\ conv' = [conv EXCEPT ![c] = Untracked]
    /\ UNCHANGED <<msClock, fs, extVars>>
    /\ UNCHANGED <<sysVars, store, migrated, init, dbs, apiVars>>

----------------------------------------------------------------------------
(* The extension *)

\* the acknowledgment documents the extension may write
AckBodies ==
    { JsonFile([acknowledged |-> JBool(TRUE)]),
      JsonFile([acknowledged |-> JBool(FALSE)]),
      JsonFile([acknowledged |-> JStr(<<"no">>)]),
      JsonFile([timestamp |-> JStr(<<"now">>)]),
      BadJsonFile }

\* the well-formed replies the extension may write to trigger id t: with
\* the trigger id embedded, and (as older producers do) without it
ReplyBodies(t) ==
    { JsonFile([user_input |-> JStr(<<"ok">>), trigger_id |-> JStr(t)]),
      JsonFile([user_input |-> JStr(<<"ok">>)]) }

\* every response document the extension may write in reply to trigger id t
ResponseBodies(t) ==
    ReplyBodies(t) \cup
    { JsonFile([user_input |-> JStr(<<" ">>), trigger_id |-> JStr(t)]),
      BadJsonFile,
      TextFile(<<"ok", "\n">>) }

\* the trigger id of a rendezvous of another Review Gate server that shares
\* the temp directory
ForeignTrigger == <<"review_", "other">>

\* the trigger id a trigger file carries in data.trigger_id, as a reader
\* that parses the file gets it
TriggerIdIn(file) == Loads(file.doc.text).v.data.v.trigger_id.v

\* a review_gate_chat call is in flight
InFlight == \E c \in Calls : pc[c] \notin {"idle", "done"}

\* the extension reads the canonical trigger file and removes it
ExtConsumeTrigger ==
    /\ InFlight
    /\ Exists(fs, TriggerPath)
    /\ seen' = seen \cup {TriggerIdIn(fs[TriggerPath])}
    /\ fs' = Unlink(fs, TriggerPath)
    /\ UNCHANGED <<callVars, msClock, nResp, nAck>>
    /\ UNCHANGED <<sysVars, storeVars, apiVars>>

\* the extension reads a backup trigger file
ExtReadBackup(i) ==
    /\ InFlight
    /\ Exists(fs, BackupPath(i))
    /\ TriggerIdIn(fs[BackupPath(i)]) \notin seen
    /\ seen' = seen \cup {TriggerIdIn(fs[BackupPath(i)])}
    /\ UNCHANGED <<callVars, msClock, fs, nResp, nAck>>
    /\ UNCHANGED <<sysVars, storeVars, apiVars>>

\* a call whose acknowledgment wait for trigger id t has not returned yet
AckAwaited(t) ==
    \E c \in Calls : pc[c] \in {"pub_exists", "pub_stat", "ack"} /\ TidOf(c) = t

\* a call in flight scans path p for its response
Scanned(p) ==
    \E c \in Calls :
        /\ pc[c] \in {"pub_exists", "pub_stat", "ack", "resp"}
        /\ p \in Range(ResponsePatterns(TidOf(c)))

\* the extension writes the acknowledgment document of a trigger it has read.
\* (An acknowledgment written after the wait for it has returned is never
\* read again, its path being keyed by the trigger id: such writes are left
\* out, they change nothing the server observes.)
ExtAcknowledge(t, body) ==
    /\ AckAwaited(t)
    /\ nAck < MaxAcks
    /\ nAck' = nAck + 1
    /\ fs' = WriteText(fs, AckPath(t), File(body, t))
    /\ UNCHANGED <<callVars, msClock, seen, nResp>>
    /\ UNCHANGED <<sysVars, storeVars, apiVars>>

\* the extension writes a response document in reply to a trigger it has
\* read, at one of the paths the server scans for that trigger.  (A document
\* at a path that no call in flight scans is never read before that call
\* returns: such writes are left out as well.)
ExtRespond(t, i, body) ==
    /\ Scanned(ResponsePatterns(t)[i])
    /\ nResp < MaxResponses
    /\ nResp' = nResp + 1
    /\ fs' = WriteText(fs, ResponsePatterns(t)[i], File(body, t))
    /\ UNCHANGED <<callVars, msClock, seen, nAck>>
    /\ UNCHANGED <<sysVars, storeVars, apiVars>>

\* the extension of another server writes the reply to its own trigger at a
\* generic path
ForeignRespond(i) ==
    /\ Scanned(ResponsePatterns(ForeignTrigger)[i])
    /\ nResp < MaxResponses
    /\ nResp' = nResp + 1
    /\ fs' = WriteText(fs, ResponsePatterns(ForeignTrigger)[i],
                       File(JsonFile([user_input |-> JStr(<<"theirs">>),
                                      trigger_id |-> JStr(ForeignTrigger)]),
                            ForeignTrigger))
    /\ UNCHANGED <<callVars, msClock, seen, nAck>>
    /\ UNCHANGED <<sysVars, storeVars, apiVars>>

----------------------------------------------------------------------------
(* The store: Database.initialize and its migrations *)

\* the Database objects: the one get_database() makes and any other object
\* over the same file (another server process)
Objs == {"_db", "other"}

\* the calls of initialize(): 1 is the one get_database() makes
Inits == {1, 2}

\* the list `migrations`, each entry by the number of statements the
\* migration executes
Migrations == <<5, 4, 2, 2, 1, 1>>

Versions == 1..Len(Migrations)

\* a file which sqlite3.connect has just created
EmptyStore == [schema |-> {}, recorded |-> {}, convs |-> <<>>,
               sessions |-> <<>>, messages |-> <<>>, checkpoints |-> <<>>]

NothingMigrated == [runs |-> [m \in Versions |-> 0], records |-> [m \in Versions |-> 0]]

NotCalled == [pc |-> "idle", obj |-> "_db", version |-> 0, m |-> 0, k |-> 0,
              fault |-> FALSE, after |-> FALSE]

\* no resource has been read
NoResource == [db |-> None, migrated |-> FALSE]

\* the server once run() has passed its try/except around get_database(),
\* with self._db = db
Serving(db) == [run |-> "serving", global |-> db, self |-> db,
                initialized |-> [o \in Objs |-> FALSE], resource |-> NoResource]

SetMax(S) == CHOOSE x \in S : \A y \in S : y <= x

\* a version query that finds nothing
GetSchemaVersionLost(st, ok) == 0

\* _get_schema_version: fetch_one returns None when the query fails (the
\* table is missing, or the store fails: `ok` is false), and
\* `result[0] if result and result[0] else 0`
GetSchemaVersion(st, ok) ==
    IF ~ok \/ <<1, 1>> \notin st.schema \/ st.recorded = {} THEN 0
    ELSE SetMax(st.recorded)

\* a loop that passes over the migration after the next
ShouldRunSkipping(i, version) == i > version /\ i # version + 2

\* `if i > version`
ShouldRun(i, version) == i > version

\* where initialize() goes on from migration number i of the loop: to the
\* first statement of the next migration to run, or past the loop
LoopFrom(call, i) ==
    LET pending == {n \in Versions : n >= i /\ ShouldRun(n, call.version)}
    IN  IF pending = {} THEN [call EXCEPT !.pc = "pragma"]
        ELSE [call EXCEPT !.pc = "migrate",
                          !.m = CHOOSE n \in pending : \A o \in pending : n <= o,
                          !.k = 1]

Running(j) == init[j].pc \in {"version", "migrate", "record", "pragma"}

\* initialize() is called on object o: `if self._initialized: return`
Initialize(j, o) ==
    /\ init[j].pc = "idle"
    /\ init' = [init EXCEPT ![j] =
          [@ EXCEPT !.obj = o,
                    !.pc = IF dbs.initialized[o] THEN "done" ELSE "version",
                    !.after = \E h \in Inits \ {j} : init[h].pc = "done"]]

\* another initialize() over the same file: on the server's object or on
\* another one
InitializeAgain(j) ==
    /\ j # 1
    /\ \E o \in Objs : (o = "_db" => dbs.global = "_db") /\ Initialize(j, o)
    /\ UNCHANGED <<callVars, msClock, fs, extVars, sysVars>>
    /\ UNCHANGED <<store, migrated, dbs, conv, apiVars>>

\* `version = await self._get_schema_version()`
ReadVersion(j) ==
    /\ init[j].pc = "version"
    /\ \E ok \in BOOLEAN :
          init' = [init EXCEPT ![j] =
              LoopFrom([@ EXCEPT !.version = GetSchemaVersion(store, ok),
                                 !.fault = @ \/ ~ok], 1)]
    /\ UNCHANGED <<callVars, msClock, fs, extVars, sysVars>>
    /\ UNCHANGED <<store, migrated, dbs, conv, apiVars>>

\* one `await self.execute(...)` of migration m: a CREATE ... IF NOT EXISTS,
\* committed on its own; execute re-raises what sqlite3 raises
ExecuteStatement(j) ==
    /\ init[j].pc = "migrate"
    /\ LET m == init[j].m
           k == init[j].k
       IN  \E ok \in BOOLEAN :
             IF ok
             THEN /\ store' = [store EXCEPT !.schema = @ \cup {<<m, k>>}]
                  /\ IF k = Migrations[m]
                     THEN /\ init' = [init EXCEPT ![j].pc = "record"]
                          /\ migrated' = [migrated EXCEPT !.runs[m] = @ + 1]
                     ELSE /\ init' = [init EXCEPT ![j].k = k + 1]
                          /\ UNCHANGED migrated
             ELSE /\ init' = [init EXCEPT ![j].pc = "failed", ![j].fault = TRUE]
                  /\ UNCHANGED <<store, migrated>>
    /\ UNCHANGED <<callVars, msClock, fs, extVars, sysVars>>
    /\ UNCHANGED <<dbs, conv, apiVars>>

\* `INSERT OR REPLACE INTO schema_migrations (version, ...)` after migration m
RecordMigration(j) ==
    /\ init[j].pc = "record"
    /\ LET m == init[j].m
       IN  \E ok \in BOOLEAN :
             IF ok /\ <<1, 1>> \in store.schema
             THEN /\ store' = [store EXCEPT !.recorded = @ \cup {m}]
                  /\ migrated' = [migrated EXCEPT !.records[m] = @ + 1]
                  /\ init' = [init EXCEPT ![j] = LoopFrom(@, m + 1)]
             ELSE /\ init' = [init EXCEPT ![j].pc = "failed", ![j].fault = TRUE]
                  /\ UNCHANGED <<store, migrated>>
    /\ UNCHANGED <<callVars, msClock, fs, extVars, sysVars>>
    /\ UNCHANGED <<dbs, conv, apiVars>>

\* `await self.execute("PRAGMA journal_mode=...")` and
\* `self._initialized = True`
Pragma(j) ==
    /\ init[j].pc = "pragma"
    /\ \E ok \in BOOLEAN :
          IF ok
          THEN /\ init' = [init EXCEPT ![j].pc = "done"]
               /\ dbs' = [dbs EXCEPT !.initialized[init[j].obj] = TRUE]
          ELSE /\ init' = [init EXCEPT ![j].pc = "failed", ![j].fault = TRUE]
               /\ UNCHANGED dbs
    /\ UNCHANGED <<callVars, msClock, fs, extVars, sysVars>>
    /\ UNCHANGED <<store, migrated, conv, apiVars>>

\* the process of a running initialize() stops between two statements
Stop(j) ==
    /\ Running(j)
    /\ init' = [init EXCEPT ![j].pc = "stopped"]
    /\ UNCHANGED <<callVars, msClock, fs, extVars, sysVars>>
    /\ UNCHANGED <<store, migrated, dbs, conv, apiVars>>

\* what initialize() call j does once called
InitializeStep(j) ==
    \/ ReadVersion(j)
    \/ ExecuteStatement(j)
    \/ RecordMigration(j)
    \/ Pragma(j)

----------------------------------------------------------------------------
(* The store: time stamps and sessions *)

\* the clock when the model starts.  s counts steps of ten seconds, and us
\* tells whether the time is past the step (its microseconds are not zero)
Midnight == [s |-> 0, us |-> 0]

\* no Database method has returned yet
NoReturn == [op |-> "none"]

\* datetime.isoformat() as the text SQLite compares: the seconds, and the
\* microseconds unless they are zero ("...T10:00:00" against
\* "...T10:00:00.000001")
IsoFormat(t) == IF t.us = 0 THEN <<t.s>> ELSE <<t.s, t.us>>

\* `a < b` on TEXT values: the first differing position decides, and a proper
\* prefix is smaller
TextLess(a, b) ==
    \/ \E i \in 1..Len(a) :
          /\ i <= Len(b)
          /\ a[i] < b[i]
          /\ \A j \in 1..(i - 1) : a[j] = b[j]
    \/ /\ Len(a) < Len(b)
       /\ \A j \in 1..Len(a) : a[j] = b[j]

\* datetime.fromtimestamp(time.time() - seconds)
Ago(t, seconds) == [t EXCEPT !.s = @ - seconds]

\* a function with one more (or one replaced) entry
Put(f, key, row) ==
    [i \in DOMAIN f \cup {key} |-> IF i = key THEN row ELSE f[i]]

\* a function without the keys in gone
Without(f, gone) == [i \in DOMAIN f \ gone |-> f[i]]

\* create_session: `INSERT INTO sessions (uuid, created_at, updated_at,
\* status, expires_at, heartbeat_at) VALUES (?, now, now, 'active', ?, now)`;
\* uuid is the PRIMARY KEY
InsertSession(st, uuid, t) ==
    IF uuid \in DOMAIN st.sessions
    THEN [ok |-> FALSE, store |-> st]
    ELSE [ok |-> TRUE,
          store |-> [st EXCEPT !.sessions =
                        Put(@, uuid, [created_at |-> IsoFormat(t),
                                      heartbeat_at |-> IsoFormat(t),
                                      status |-> "active"])]]

\* the session ids a client of the Database passes
SessionIds == {<<"s1">>, <<"s2">>}

\* the timeouts and ages a client passes to the cleanups, in steps of ten
\* seconds
Windows == {1, 3}

\* the default timeout_seconds of cleanup_stale_sessions, 30, in steps
StaleWindow == 3

\* the clock moves on: past the present step, or to the next one, on the
\* step or past it
Tick ==
    /\ now.s < MaxNow
    /\ \E t \in {[s |-> now.s, us |-> 1], [s |-> now.s + 1, us |-> 0],
                  [s |-> now.s + 1, us |-> 1]} :
          /\ t # now
          /\ now' = t
    /\ UNCHANGED <<callVars, msClock, fs, extVars, sysVars, storeVars, ret>>

\* a new connection: sqlite3.connect(self.db_path); changes() counts the rows
\* changed by the statements of this connection
Connect == [changes |-> 0]

\* `await self.fetch_one("SELECT changes() as count")` and
\* `result[0] if result else 0`: fetch_one opens a connection of its own
SelectChanges == Connect.changes

\* Database.create_session(session_uuid): the uuid, or what execute re-raises
ApiCreateSession(uuid) ==
    /\ LET ins == InsertSession(store, uuid, now)
       IN  /\ store' = ins.store
           /\ ret' = [op |-> "create_session", arg |-> uuid, raised |-> ~ins.ok]
    /\ UNCHANGED <<callVars, msClock, fs, extVars, sysVars>>
    /\ UNCHANGED <<migrated, init, dbs, conv, now>>

\* the active sessions whose heartbeat_at is smaller than the cutoff
StaleAt(st, cutoff) ==
    {u \in DOMAIN st.sessions :
        /\ st.sessions[u].status = "active"
        /\ TextLess(st.sessions[u].heartbeat_at, cutoff)}

\* Database.cleanup_stale_sessions(timeout_seconds): `UPDATE sessions SET
\* status = 'stale' WHERE status = 'active' AND heartbeat_at < ?` in one
\* connection, then the count from another
CleanupStaleSessions(timeout_seconds) ==
    /\ LET cutoff == IsoFormat(Ago(now, timeout_seconds))
           stale == StaleAt(store, cutoff)
       IN  store' = [store EXCEPT !.sessions =
                        [u \in DOMAIN @ |->
                            IF u \in stale THEN [@[u] EXCEPT !.status = "stale"] ELSE @[u]]]
    /\ ret' = [op |-> "cleanup_stale_sessions", arg |-> timeout_seconds,
               value |-> SelectChanges]
    /\ UNCHANGED <<callVars, msClock, fs, extVars, sysVars>>
    /\ UNCHANGED <<migrated, init, dbs, conv, now>>

\* a heartbeat that is not written
KeepSessionHeartbeat(st, uuid, t) == st

\* a heartbeat that makes the session active again
ReviveSessionHeartbeat(st, uuid, t) ==
    IF uuid \in DOMAIN st.sessions
    THEN [st EXCEPT !.sessions[uuid].heartbeat_at = IsoFormat(t),
                    !.sessions[uuid].status = "active"]
    ELSE st

\* update_session_heartbeat: `UPDATE sessions SET heartbeat_at = ?,
\* updated_at = ? WHERE uuid = ?`
UpdateSessionHeartbeat(st, uuid, t) ==
    IF uuid \in DOMAIN st.sessions
    THEN [st EXCEPT !.sessions[uuid].heartbeat_at = IsoFormat(t)]
    ELSE st

\* Database.update_session_heartbeat(session_uuid)
ApiUpdateSessionHeartbeat(uuid) ==
    /\ store' = UpdateSessionHeartbeat(store, uuid, now)
    /\ ret' = [op |-> "update_session_heartbeat", arg |-> uuid]
    /\ UNCHANGED <<callVars, msClock, fs, extVars, sysVars>>
    /\ UNCHANGED <<migrated, init, dbs, conv, now>>

----------------------------------------------------------------------------
(* The store: sessions and conversations of review_gate_chat *)

\* the session_uuid argument: absent, or the session the agent was given
SessionArgs == {<<>>, <<"s1">>}

\* str(uuid.uuid4()) made for call c, by the store or by the fallback
Uuid(kind, c) == <<kind, c>>

\* an INSERT with no UNIQUE constraint on session_uuid
InsertAnyConversation(st, id, session_uuid) ==
    [ok |-> TRUE,
     store |-> [st EXCEPT !.convs =
                   [i \in DOMAIN @ \cup {id} |->
                       IF i = id THEN [session |-> session_uuid, status |-> "active"]
                       ELSE @[i]]]]

\* `INSERT INTO conversations (id, session_uuid, ..., status, ...) VALUES
\* (?, ?, ..., 'active', ...)` on the table of migration 1, where
\* session_uuid is `TEXT NOT NULL UNIQUE`: sqlite3 raises IntegrityError when
\* a row of any status has that session_uuid
InsertConversation(st, id, session_uuid) ==
    IF \E i \in DOMAIN st.convs : st.convs[i].session = session_uuid
    THEN [ok |-> FALSE, store |-> st]
    ELSE [ok |-> TRUE,
          store |-> [st EXCEPT !.convs =
                        [i \in DOMAIN @ \cup {id} |->
                            IF i = id THEN [session |-> session_uuid, status |-> "active"]
                            ELSE @[i]]]]

\* `SELECT * FROM conversations WHERE session_uuid = ? AND status = 'active'`
ActiveOf(st, session_uuid) ==
    {i \in DOMAIN st.convs :
        st.convs[i].session = session_uuid /\ st.convs[i].status = "active"}

\* call_tool to the end of the session step: _get_or_create_session when no
\* session_uuid is given (a new session, from the store or from the
\* fallback), else _update_session_heartbeat; both catch what the store
\* raises
BeginChat(c, session_uuid) ==
    /\ pc[c] = "idle"
    /\ pc' = [pc EXCEPT ![c] = "conv_lookup"]
    /\ \E ok \in BOOLEAN :
          LET stored == dbs.self # None /\ ok
              uuid == IF session_uuid = <<>> THEN Uuid("session", c) ELSE session_uuid
          IN  /\ conv' = [conv EXCEPT ![c] =
                    [tracked |-> TRUE,
                     session |-> uuid,
                     id |-> <<>>,
                     degraded |-> ~stored,
                     fault |-> ~stored]]
              /\ store' = IF ~stored THEN store
                          ELSE IF session_uuid = <<>>
                          THEN InsertSession(store, uuid, now).store
                          ELSE UpdateSessionHeartbeat(store, uuid, now)
    /\ UNCHANGED <<tid, elapsed, ackResult, ackFound, respResult, events, reply>>
    /\ UNCHANGED <<msClock, fs, extVars, sysVars>>
    /\ UNCHANGED <<migrated, init, dbs, apiVars>>

\* _get_or_create_conversation to the end of get_conversation_by_session:
\* without self._db a uuid is returned; fetch_dict returns None when the
\* query fails, as when there is no active row
LookupConversation(c) ==
    /\ pc[c] = "conv_lookup"
    /\ IF dbs.self = None
       THEN /\ conv' = [conv EXCEPT ![c].id = Uuid("ephemeral", c)]
            /\ pc' = [pc EXCEPT ![c] = "add_message"]
       ELSE \E ok \in BOOLEAN :
              LET found == IF ok THEN ActiveOf(store, conv[c].session) ELSE {}
              IN  IF found # {}
                  THEN /\ conv' = [conv EXCEPT ![c].id = CHOOSE i \in found : TRUE]
                       /\ pc' = [pc EXCEPT ![c] = "add_message"]
                  ELSE /\ conv' = [conv EXCEPT ![c].degraded = @ \/ ~ok,
                                               ![c].fault = @ \/ ~ok]
                       /\ pc' = [pc EXCEPT ![c] = "conv_create"]
    /\ UNCHANGED <<tid, elapsed, ackResult, ackFound, respResult, events, reply>>
    /\ UNCHANGED <<msClock, fs, extVars, sysVars>>
    /\ UNCHANGED <<store, migrated, init, dbs, apiVars>>

\* `conv_id = await self._db.create_conversation(...)`; the except clause
\* returns a uuid of its own when the INSERT raises
CreateConversation(c) ==
    /\ pc[c] = "conv_create"
    /\ pc' = [pc EXCEPT ![c] = "add_message"]
    /\ \E ok \in BOOLEAN :
          LET ins == InsertConversation(store, Uuid("conversation", c), conv[c].session)
          IN  IF ok /\ ins.ok
              THEN /\ store' = ins.store
                   /\ conv' = [conv EXCEPT ![c].id = Uuid("conversation", c)]
              ELSE /\ conv' = [conv EXCEPT ![c].id = Uuid("ephemeral", c),
                                           ![c].degraded = TRUE,
                                           ![c].fault = @ \/ ~ok]
                   /\ UNCHANGED store
    /\ UNCHANGED <<tid, elapsed, ackResult, ackFound, respResult, events, reply>>
    /\ UNCHANGED <<msClock, fs, extVars, sysVars>>
    /\ UNCHANGED <<migrated, init, dbs, apiVars>>


----------------------------------------------------------------------------
(* The store: messages, checkpoints and the purge of old sessions *)

\* an hour in steps of ten seconds: `age_hours * 3600`
HourSteps == 360

\* the ages, in hours, a client passes to cleanup_old_sessions
Ages == {0, 1}

\* the sessions created before the cutoff
OldAt(st, cutoff) ==
    {u \in DOMAIN st.sessions : TextLess(st.sessions[u].created_at, cutoff)}

\* a DELETE that takes along the conversations of the sessions, with their
\* messages and checkpoints
DeleteSessionsCascading(st, gone) ==
    LET orphans == {i \in DOMAIN st.convs : st.convs[i].session \in gone}
    IN  [st EXCEPT !.sessions = Without(@, gone),
                   !.convs = Without(@, orphans),
                   !.messages = SelectSeq(@, LAMBDA m : m.conversation_id \notin orphans),
                   !.checkpoints = SelectSeq(@, LAMBDA k : k.conversation_id \notin orphans)]

\* `DELETE FROM sessions WHERE created_at < ?`: no table refers to sessions
\* by a foreign key
DeleteSessions(st, gone) == [st EXCEPT !.sessions = Without(@, gone)]

\* Database.cleanup_old_sessions(age_hours): the DELETE in one connection,
\* then the count from another
CleanupOldSessions(age_hours) ==
    /\ LET cutoff == IsoFormat(Ago(now, age_hours * HourSteps))
       IN  store' = DeleteSessions(store, OldAt(store, cutoff))
    /\ ret' = [op |-> "cleanup_old_sessions", arg |-> age_hours,
               value |-> SelectChanges]
    /\ UNCHANGED <<callVars, msClock, fs, extVars, sysVars>>
    /\ UNCHANGED <<migrated, init, dbs, conv, now>>

\* str(uuid.uuid4()) for the n-th row of a table
RowId(kind, n) == <<kind, ToString(n)>>

\* Database.create_conversation(session_uuid): the id, or what execute
\* re-raises
ApiCreateConversation(session_uuid) ==
    /\ LET id == RowId("conversation", Cardinality(DOMAIN store.convs) + 1)
           ins == InsertConversation(store, id, session_uuid)
       IN  /\ store' = ins.store
           /\ ret' = [op |-> "create_conversation", arg |-> session_uuid,
                      raised |-> ~ins.ok]
    /\ UNCHANGED <<callVars, msClock, fs, extVars, sysVars>>
    /\ UNCHANGED <<migrated, init, dbs, conv, now>>

\* Database.update_conversation_status(conv_id, status)
ApiUpdateConversationStatus(conv_id, status) ==
    /\ store' = UpdateConversationStatus(store, conv_id, status)
    /\ ret' = [op |-> "update_conversation_status", arg |-> conv_id]
    /\ UNCHANGED <<callVars, msClock, fs, extVars, sysVars>>
    /\ UNCHANGED <<migrated, init, dbs, conv, now>>

\* Database.get_conversation(conv_id): the row, or None
GetConversation(st, conv_id) ==
    IF conv_id \in DOMAIN st.convs THEN <<st.convs[conv_id]>> ELSE <<>>

ApiGetConversation(conv_id) ==
    /\ ret' = [op |-> "get_conversation", arg |-> conv_id,
               value |-> GetConversation(store, conv_id)]
    /\ UNCHANGED <<callVars, msClock, fs, extVars, sysVars, storeVars, now>>

\* the roles of a message
Roles == {"assistant", "user"}

\* an attachment descriptor
Descriptor(fileName) ==
    JObj([mimeType |-> JStr(<<"image/png">>),
          fileName |-> JStr(fileName),
          base64Data |-> JStr(<<"iVBOR">>)])

\* the attachments a client passes to add_message: None, no descriptor, or
\* two image descriptors
AttachmentArgs ==
    {JNull, JList(<<>>),
     JList(<<Descriptor(<<"a", "\"", ".png">>), Descriptor(<<"b.png">>)>>)}

\* `json.dumps(attachments) if attachments else None`
AttachmentsColumn(attachments) ==
    IF Truthy(attachments) THEN Dumps(attachments) ELSE JNull

\* `INSERT INTO messages (id, conversation_id, role, content, timestamp,
\* attachments) VALUES (...)`; the rows are kept in the order of their rowid
InsertMessage(st, conversation_id, role, content, attachments, t) ==
    [st EXCEPT !.messages =
        Append(@, [id |-> RowId("message", Len(@) + 1),
                   conversation_id |-> conversation_id,
                   role |-> role,
                   content |-> content,
                   timestamp |-> IsoFormat(t),
                   attachments |-> AttachmentsColumn(attachments)])]

\* Database.add_message(conversation_id, role, content, attachments): the
\* INSERT (the UPDATE of the conversation's updated_at, a column the model
\* does not keep, follows it)
ApiAddMessage(conversation_id, role, content, attachments) ==
    /\ store' = InsertMessage(store, conversation_id, role, content, attachments, now)
    /\ ret' = [op |-> "add_message",
               arg |-> [conversation_id |-> conversation_id, role |-> role,
                        content |-> content, attachments |-> attachments],
               value |-> RowId("message", Len(store.messages) + 1)]
    /\ UNCHANGED <<callVars, msClock, fs, extVars, sysVars>>
    /\ UNCHANGED <<migrated, init, dbs, conv, now>>

\* `await self._db.add_message(...)` for the assistant's message, inside
\* try/except, and the rendezvous begins.  (The UPDATE of the conversation's
\* updated_at that follows the INSERT touches a column the model does not
\* keep.)
AddMessage(c) ==
    /\ pc[c] = "add_message"
    /\ BeginRendezvous(c)
    /\ \E ok \in BOOLEAN :
          /\ conv' = [conv EXCEPT ![c].degraded = @ \/ (dbs.self # None /\ ~ok),
                                  ![c].fault = @ \/ (dbs.self # None /\ ~ok)]
          /\ store' = IF dbs.self # None /\ ok
                      THEN InsertMessage(store, conv[c].id, "assistant",
                                         <<"message">>, JNull, now)
                      ELSE store
    /\ UNCHANGED <<msClock, fs, extVars, sysVars>>
    /\ UNCHANGED <<migrated, init, dbs, apiVars>>

\* the prefix of call c, step by step
Prefix(c) ==
    \/ LookupConversation(c)
    \/ CreateConversation(c)
    \/ AddMessage(c)

\* one iteration of the loop of wait_for_user_input, from the test of the
\* while condition to the sleep (or the return), and the handler's code after
\* a return up to its result.  After a user input the handler stores the
\* user's message, `if self._db:` and inside try/except (for a call whose
\* conversation the model follows).  After None the handler tests
\* `if self._db and conversation_id`: `recorded` is the outcome of that test
\* (self._db is None when the store failed to open in run()).
ResponsePoll(c) ==
    /\ pc[c] = "resp"
    /\ IF Expired(c, ChatTimeout)
       THEN /\ respResult' = [respResult EXCEPT ![c] = NoInput]
            /\ events' = Log(c, <<"resp_timeout">>)
            /\ \E recorded \in HasDatabase(c) :
                  IF recorded
                  THEN /\ pc' = [pc EXCEPT ![c] = "timeout_update"]
                       /\ UNCHANGED reply
                  ELSE Reply(c, TimeoutResponse)
            /\ UNCHANGED <<fs, elapsed, store, conv>>
       ELSE LET s == Scan(fs, TidOf(c))
                read == IF AnyCandidate(fs, TidOf(c)) /\ "resp_read" \notin Range(events[c])
                        THEN <<"resp_read">> ELSE <<>>
                stores == conv[c].tracked /\ dbs.self # None
            IN  /\ fs' = s.fs
                /\ IF s.result.kind = "input"
                   THEN /\ respResult' = [respResult EXCEPT ![c] = s.result]
                        /\ \E ok \in IF stores THEN BOOLEAN ELSE {TRUE} :
                              /\ store' = IF stores /\ ok
                                          THEN InsertMessage(store, conv[c].id, "user",
                                                             s.result.user_input,
                                                             s.result.attachments, now)
                                          ELSE store
                              /\ conv' = [conv EXCEPT ![c].degraded = @ \/ ~ok,
                                                      ![c].fault = @ \/ ~ok]
                        /\ Reply(c, UserResponse(s.result.user_input))
                        /\ events' = Log(c, read \o <<"resp_input">>)
                        /\ UNCHANGED elapsed
                   ELSE /\ Sleep(c, CheckInterval)
                        /\ events' = Log(c, read)
                        /\ UNCHANGED <<respResult, reply, pc, store, conv>>
    /\ UNCHANGED <<tid, ackResult, ackFound>>
    /\ UNCHANGED <<msClock, extVars>>
    /\ UNCHANGED <<sysVars, migrated, init, dbs, apiVars>>

\* the rows in the order of their ranks: rank[i] rows come before row i
InOrder(rows, rank) ==
    [k \in 1..Len(rows) |-> rows[CHOOSE i \in DOMAIN rows : rank[i] = k - 1]]

\* ORDER BY names one column; rows that are equal in it come in the order
\* SQLite visits them: by rowid, or against it
Scans == {"rowid", "reverse"}

\* LIMIT limit OFFSET offset
Page(rows, limit, offset) ==
    SubSeq(rows, offset + 1, IF offset + limit < Len(rows) THEN offset + limit ELSE Len(rows))

\* the default limit of get_messages
DefaultLimit == 50

\* the rows `ORDER BY timestamp ASC`
ByTimestamp(rows, scan) ==
    LET Earlier(j, i) ==
            \/ TextLess(rows[j].timestamp, rows[i].timestamp)
            \/ /\ rows[j].timestamp = rows[i].timestamp
               /\ IF scan = "rowid" THEN j < i ELSE j > i
    IN  InOrder(rows, [i \in DOMAIN rows |->
                          Cardinality({j \in DOMAIN rows : Earlier(j, i)})])

\* Database.get_messages(conversation_id, limit, offset): `SELECT * FROM
\* messages WHERE conversation_id = ? ORDER BY timestamp ASC LIMIT ? OFFSET
\* ?`, then json.loads of every attachments column that is truthy
GetMessages(st, conversation_id, limit, offset, scan) ==
    LET rows == SelectSeq(st.messages, LAMBDA m : m.conversation_id = conversation_id)
        page == Page(ByTimestamp(rows, scan), limit, offset)
    IN  [k \in DOMAIN page |->
            [page[k] EXCEPT !.attachments = IF @ # JNull THEN Loads(@) ELSE @]]

ApiGetMessages(conversation_id) ==
    /\ \E scan \in Scans :
          ret' = [op |-> "get_messages", arg |-> conversation_id,
                  value |-> GetMessages(store, conversation_id, DefaultLimit, 0, scan)]
    /\ UNCHANGED <<callVars, msClock, fs, extVars, sysVars, storeVars, now>>

\* an ISO time as the characters of a JSON string
IsoText(ts) == [i \in DOMAIN ts |-> ToString(ts[i])]

\* a row of get_messages as json.dumps sees it: a dict
MessageDict(m) ==
    JObj([id |-> JStr(m.id),
          conversation_id |-> JStr(m.conversation_id),
          role |-> JStr(<<m.role>>),
          content |-> JStr(m.content),
          timestamp |-> JStr(IsoText(m.timestamp)),
          attachments |-> m.attachments])

\* `INSERT INTO checkpoints (id, conversation_id, name, snapshot_data,
\* created_at) VALUES (?, ?, ?, json.dumps(snapshot_data), now)`
InsertCheckpoint(st, conversation_id, name, snapshot_data, t) ==
    [st EXCEPT !.checkpoints =
        Append(@, [id |-> RowId("checkpoint", Len(@) + 1),
                   conversation_id |-> conversation_id,
                   name |-> name,
                   snapshot_data |-> Dumps(snapshot_data),
                   created_at |-> IsoFormat(t)])]

\* the rows `ORDER BY created_at DESC`
ByCreatedAtDesc(rows, scan) ==
    LET Earlier(j, i) ==
            \/ TextLess(rows[i].created_at, rows[j].created_at)
            \/ /\ rows[j].created_at = rows[i].created_at
               /\ IF scan = "rowid" THEN j < i ELSE j > i
    IN  InOrder(rows, [i \in DOMAIN rows |->
                          Cardinality({j \in DOMAIN rows : Earlier(j, i)})])

\* Database.list_checkpoints(conversation_id): `SELECT * FROM checkpoints
\* WHERE conversation_id = ? ORDER BY created_at DESC`, then json.loads of
\* every snapshot_data
ListCheckpoints(st, conversation_id, scan) ==
    LET sorted == ByCreatedAtDesc(SelectSeq(st.checkpoints,
                                            LAMBDA k : k.conversation_id = conversation_id),
                                  scan)
    IN  [k \in DOMAIN sorted |->
            [sorted[k] EXCEPT !.snapshot_data = Loads(@)]]

ApiListCheckpoints(conversation_id) ==
    /\ \E scan \in Scans :
          ret' = [op |-> "list_checkpoints", arg |-> conversation_id,
                  value |-> ListCheckpoints(store, conversation_id, scan)]
    /\ UNCHANGED <<callVars, msClock, fs, extVars, sysVars, storeVars, now>>

\* the limit _handle_create_checkpoint passes to get_messages
SnapshotLimit == 50

\* the names a client gives its checkpoints
CheckpointNames == {<<"before">>}

\* _handle_create_checkpoint(args) when every statement succeeds: the active
\* conversation of the session, its messages, the snapshot and the INSERT
HandleCreateCheckpoint(session_uuid, name, description) ==
    /\ IF dbs.self = None \/ session_uuid = <<>>
       THEN /\ ret' = [op |-> "create_checkpoint", arg |-> session_uuid,
                       error |-> <<"No database or session UUID provided">>]
            /\ UNCHANGED store
       ELSE LET found == ActiveOf(store, session_uuid)
            IN  IF found = {}
                THEN /\ ret' = [op |-> "create_checkpoint", arg |-> session_uuid,
                                error |-> <<"No active conversation found for session">>]
                     /\ UNCHANGED store
                ELSE \E scan \in Scans, id \in {CHOOSE i \in found : TRUE} :
                       \E messages \in {GetMessages(store, id, SnapshotLimit, 0, scan)} :
                         \E snapshot \in
                               {JObj([conversation |->
                                          JObj([id |-> JStr(id), title |-> JNull,
                                                context |-> JNull]),
                                      messages |->
                                          JList([k \in DOMAIN messages |->
                                                    MessageDict(messages[k])]),
                                      created_at |-> JStr(IsoText(IsoFormat(now))),
                                      description |-> JStr(description)])} :
                            /\ store' = InsertCheckpoint(store, id, name, snapshot, now)
                            /\ ret' = [op |-> "create_checkpoint", arg |-> session_uuid,
                                       checkpoint_id |->
                                           RowId("checkpoint", Len(store.checkpoints) + 1)]
    /\ UNCHANGED <<callVars, msClock, fs, extVars, sysVars>>
    /\ UNCHANGED <<migrated, init, dbs, conv, now>>

----------------------------------------------------------------------------
(* Prompt templates: PromptManager._substitute_template *)

\* A template is its text cut where the two patterns can tell pieces apart:
\* "{{", "}}", "#if", "/if", a whitespace character, a run of word
\* characters (\w+), or a run of other characters ("U+2014" stands for the
\* dash).
Words == {"name", "urgent", "tags", "Hi", "Ana", "URGENT", "a", "b"}

\* the position after the whitespace that starts at position i of text
RECURSIVE SkipSpace(_, _)
SkipSpace(text, i) ==
    IF i <= Len(text) /\ text[i] \in Whitespace THEN SkipSpace(text, i + 1) ELSE i

\* the position where the first "{{/if}}" at or after position i ends, or 0
RECURSIVE CloseFrom(_, _)
CloseFrom(text, i) ==
    IF i + 2 > Len(text) THEN 0
    ELSE IF SubSeq(text, i, i + 2) = <<"{{", "/if", "}}">> THEN i + 2
    ELSE CloseFrom(text, i + 1)

\* r'\{\{#if\s+(\w+)\}\}(.*?)\{\{/if\}\}' with re.DOTALL, matched at the head
\* of text: group 1, group 2 and the end of the match
ConditionalAt(text) ==
    LET w == SkipSpace(text, 3)
        close == CloseFrom(text, w + 2)
    IN  IF /\ Len(text) >= 3
           /\ text[1] = "{{"
           /\ text[2] = "#if"
           /\ w > 3
           /\ w + 1 <= Len(text)
           /\ text[w] \in Words
           /\ text[w + 1] = "}}"
           /\ close # 0
        THEN [matched |-> TRUE, var_name |-> text[w],
              content |-> SubSeq(text, w + 2, close - 3), end |-> close]
        ELSE [matched |-> FALSE, var_name |-> "", content |-> <<>>, end |-> 0]

\* a block's content put into the result as it stands
KeepContent(content) == content

\* `return content.strip()`
BlockContent(content) == Strip(content)

\* replace_conditional(match)
ReplaceConditional(m, arguments) ==
    IF m.var_name \in DOMAIN arguments /\ Truthy(arguments[m.var_name])
    THEN BlockContent(m.content)
    ELSE <<>>

\* process_conditionals(text): re.sub replaces the matches it finds from left
\* to right and copies the rest
RECURSIVE ProcessConditionals(_, _)
ProcessConditionals(text, arguments) ==
    IF text = <<>> THEN <<>>
    ELSE LET m == ConditionalAt(text)
         IN  IF m.matched
             THEN ReplaceConditional(m, arguments)
                    \o ProcessConditionals(SubSeq(text, m.end + 1, Len(text)), arguments)
             ELSE <<Head(text)>> \o ProcessConditionals(Tail(text), arguments)

RECURSIVE JsonText(_)
RECURSIVE JsonItems(_)
\* json.dumps(value) of a string, a bool, None, a list or a dict of one key,
\* as text
JsonText(x) ==
    CASE x.t = "str" ->
            <<"\"">> \o [i \in DOMAIN x.v |-> EscapeToken(x.v[i])] \o <<"\"">>
      [] x.t = "bool" -> IF x.v THEN <<"true">> ELSE <<"false">>
      [] x.t = "list" -> <<"[">> \o JsonItems(x.v) \o <<"]">>
      [] x.t = "obj" ->
            IF DOMAIN x.v = {} THEN <<"{}">>
            ELSE LET k == CHOOSE key \in DOMAIN x.v : TRUE
                 IN  <<"{", "\"", k, "\"", ": ">> \o JsonText(x.v[k]) \o <<"}">>
      [] OTHER -> <<"null">>

\* the items of a list, separated by ", "
JsonItems(l) ==
    IF l = <<>> THEN <<>>
    ELSE IF Len(l) = 1 THEN JsonText(Head(l))
    ELSE JsonText(Head(l)) \o <<", ">> \o JsonItems(Tail(l))

\* str(value) of a string, a bool or None
Str(value) ==
    CASE value.t = "str" -> value.v
      [] value.t = "bool" -> IF value.v THEN <<"True">> ELSE <<"False">>
      [] OTHER -> <<"None">>

\* a list or dict put into the result as a placeholder
PlaceholderForm(value) ==
    IF value.t \in {"list", "obj"} THEN <<"[object]">> ELSE Str(value)

\* `json.dumps(value)` if isinstance(value, (list, dict)), else `str(value)`
StringForm(value) ==
    IF value.t \in {"list", "obj"} THEN JsonText(value) ELSE Str(value)

\* replace_variable(match)
ReplaceVariable(var_name, arguments) ==
    StringForm(Get(arguments, var_name, JStr(<<>>)))

\* re.sub(r'\{\{(\w+)\}\}', replace_variable, result)
RECURSIVE ReplaceVariables(_, _)
ReplaceVariables(text, arguments) ==
    IF text = <<>> THEN <<>>
    ELSE IF /\ Len(text) >= 3
            /\ text[1] = "{{"
            /\ text[2] \in Words
            /\ text[3] = "}}"
         THEN ReplaceVariable(text[2], arguments)
                \o ReplaceVariables(SubSeq(text, 4, Len(text)), arguments)
         ELSE <<Head(text)>> \o ReplaceVariables(Tail(text), arguments)

\* _substitute_template(template, arguments)
SubstituteTemplate(template, arguments) ==
    Strip(ReplaceVariables(ProcessConditionals(template, arguments), arguments))

\* the parts a template is written from: text, a {{key}} marker, or a block
\* {{#if key}}...{{/if}} around text and markers
Text(s) == [seg |-> "text", key |-> "", text |-> s, inner |-> <<>>]
Var(k) == [seg |-> "var", key |-> k, text |-> <<>>, inner |-> <<>>]
Block(k, inner) == [seg |-> "block", key |-> k, text |-> <<>>, inner |-> inner]

\* the text of a template given by its parts
RECURSIVE Flatten(_)
Flatten(segs) ==
    IF segs = <<>> THEN <<>>
    ELSE LET head == Head(segs)
         IN  (CASE head.seg = "text" -> head.text
                [] head.seg = "var" -> <<"{{", head.key, "}}">>
                [] OTHER -> <<"{{", "#if", " ", head.key, "}}">>
                              \o Flatten(head.inner) \o <<"{{", "/if", "}}">>)
             \o Flatten(Tail(segs))

\* the parts of the templates in the store
Pieces ==
    {Text(<<"Hi", " ">>), Text(<<" ">>), Var("name"), Var("tags"),
     Block("urgent", <<Text(<<" ", "U+2014", " ", "URGENT">>)>>),
     Block("name", <<Text(<<"\n">>), Var("name"), Text(<<" ">>)>>)}

\* the longest template, in parts
MaxPieces == 3

Templates == UNION {[1..n -> Pieces] : n \in 1..MaxPieces}

\* the argument names and the values a client passes for each
Keys == {"name", "urgent", "tags"}

ValuesOf(k) ==
    CASE k = "name" -> {JStr(<<"Ana">>), JStr(<<>>)}
      [] k = "urgent" -> {JBool(TRUE), JBool(FALSE)}
      [] OTHER -> {JList(<<JStr(<<"a">>), JStr(<<"b">>)>>),
                   JObj([a |-> JStr(<<"b">>)])}

\* `arguments or {}`: any of the names, each with one of its values
ArgumentSets ==
    UNION {{f \in [S -> UNION {ValuesOf(k) : k \in Keys}] :
                \A k \in S : f[k] \in ValuesOf(k)} : S \in SUBSET Keys}

\* get_prompt(name, arguments) from the template on: the text of the prompt
GetPrompt(segments, arguments) ==
    /\ ret' = [op |-> "get_prompt",
               arg |-> [segments |-> segments, arguments |-> arguments],
               value |-> SubstituteTemplate(Flatten(segments), arguments)]
    /\ UNCHANGED <<callVars, msClock, fs, extVars, sysVars, storeVars, now>>

----------------------------------------------------------------------------
(* Startup *)

\* the process before run()
Starting == [run |-> "start", global |-> None, self |-> None,
             initialized |-> [o \in Objs |-> FALSE], resource |-> NoResource]

\* run() calls get_database(): `_db is None`, so `_db = Database()` and
\* `await _db.initialize()` begins
GetDatabase ==
    /\ dbs.run = "start"
    /\ dbs' = [dbs EXCEPT !.run = "initialize", !.global = "_db"]
    /\ Initialize(1, "_db")
    /\ UNCHANGED <<callVars, msClock, fs, extVars, sysVars>>
    /\ UNCHANGED <<store, migrated, conv, apiVars>>

\* get_database() after initialize() has returned:
\* `await _db.initialize_default_templates()`, whose INSERTs may raise, and
\* `return _db`; then run(): `self._db = await get_database()`
DefaultTemplates ==
    /\ dbs.run = "initialize"
    /\ init[1].pc = "done"
    /\ \E ok \in BOOLEAN :
          dbs' = [dbs EXCEPT !.run = "serving", !.self = IF ok THEN dbs.global ELSE None]
    /\ UNCHANGED <<callVars, msClock, fs, extVars, sysVars>>
    /\ UNCHANGED <<store, migrated, init, conv, apiVars>>

\* run() when initialize() has raised: `except Exception` logs "Continuing
\* without database", self._db stays None, and the server goes on to serve
ContinueWithoutDatabase ==
    /\ dbs.run = "initialize"
    /\ init[1].pc = "failed"
    /\ dbs' = [dbs EXCEPT !.run = "serving"]
    /\ UNCHANGED <<callVars, msClock, fs, extVars, sysVars>>
    /\ UNCHANGED <<store, migrated, init, conv, apiVars>>

\* the stdio server takes requests
Serves == dbs.run = "serving"

\* a resource is read: `db = await get_database()` returns the module's _db
\* when it is set, initialised or not, and the handler queries it, whatever
\* migrations the file has by then
ReadResource ==
    /\ Serves
    /\ dbs.global # None
    /\ dbs.resource = NoResource
    /\ dbs' = [dbs EXCEPT !.resource =
                  [db |-> dbs.global, migrated |-> store.recorded = Versions]]
    /\ UNCHANGED <<callVars, msClock, fs, extVars, sysVars>>
    /\ UNCHANGED <<store, migrated, init, conv, apiVars>>

----------------------------------------------------------------------------
(* Shutdown and cleanup *)

\* one turn of _heartbeat_logger: `await asyncio.sleep(10)`, a line in the
\* log and a flush of the log handlers; it touches neither the store nor the
\* temp files
HeartbeatLogger ==
    /\ ~shutdownRequested
    /\ UNCHANGED vars

\* temp_files of the cleanup, in the order it visits them
TempFiles == <<TriggerPath, BackupPath(0), BackupPath(1), BackupPath(2)>>

\* _monitor_shutdown in its loop `while not self.shutdown_requested`
Sleeping == [pc |-> "sleeping", i |-> 0, raised |-> FALSE]

\* one turn of `while not self.shutdown_requested: await asyncio.sleep(1)`;
\* once the flag is set the cleanup starts with its first file.  (In
\* review_gate_mcp nothing sets the flag: the loop turns for ever.)
MonitorShutdown ==
    /\ monitor.pc = "sleeping"
    /\ monitor' = IF shutdownRequested
                  THEN [pc |-> "exists", i |-> 1, raised |-> FALSE]
                  ELSE monitor
    /\ UNCHANGED <<callVars, msClock, fs, extVars, shutdownRequested>>
    /\ UNCHANGED <<storeVars, apiVars>>

\* `if Path(temp_file).exists()` for the next file; after the last file the
\* cleanup is over and _monitor_shutdown returns
CleanupExists ==
    /\ monitor.pc = "exists"
    /\ monitor' =
          IF monitor.i > Len(TempFiles) THEN [monitor EXCEPT !.pc = "done"]
          ELSE IF Exists(fs, TempFiles[monitor.i]) THEN [monitor EXCEPT !.pc = "unlink"]
          ELSE [monitor EXCEPT !.i = @ + 1]
    /\ UNCHANGED <<callVars, msClock, fs, extVars, shutdownRequested>>
    /\ UNCHANGED <<storeVars, apiVars>>

\* `Path(temp_file).unlink()`: it raises FileNotFoundError when the file is
\* gone by now; the only handler is the `except Exception` around the whole
\* cleanup, which logs a warning and ends it
CleanupUnlink ==
    /\ monitor.pc = "unlink"
    /\ IF Exists(fs, TempFiles[monitor.i])
       THEN /\ fs' = Unlink(fs, TempFiles[monitor.i])
            /\ monitor' = [monitor EXCEPT !.pc = "exists", !.i = @ + 1]
       ELSE /\ monitor' = [monitor EXCEPT !.pc = "done", !.raised = TRUE]
            /\ UNCHANGED fs
    /\ UNCHANGED <<callVars, msClock, extVars, shutdownRequested>>
    /\ UNCHANGED <<storeVars, apiVars>>

\* the shutdown_mcp tool of review_gate_v3_mcp.py sets the flag when the
\* user confirms
ShutdownConfirmed ==
    /\ ~shutdownRequested
    /\ shutdownRequested' = TRUE
    /\ UNCHANGED <<callVars, msClock, fs, extVars, monitor>>
    /\ UNCHANGED <<storeVars, apiVars>>

\* the extension reads a backup trigger file and removes it
ExtConsumeBackup(i) ==
    /\ Exists(fs, BackupPath(i))
    /\ seen' = seen \cup {TriggerIdIn(fs[BackupPath(i)])}
    /\ fs' = Unlink(fs, BackupPath(i))
    /\ UNCHANGED <<callVars, msClock, nResp, nAck, sysVars>>
    /\ UNCHANGED <<storeVars, apiVars>>

----------------------------------------------------------------------------

\* no call yet, an empty temp directory, an idle extension
FreshCalls ==
    /\ pc = [c \in Calls |-> "idle"]
    /\ tid = [c \in Calls |-> -1]
    /\ elapsed = [c \in Calls |-> 0]
    /\ ackResult = [c \in Calls |-> "none"]
    /\ ackFound = [c \in Calls |-> FALSE]
    /\ respResult = [c \in Calls |-> Pending]
    /\ events = [c \in Calls |-> <<>>]
    /\ reply = [c \in Calls |-> Pending]
    /\ msClock = 0
    /\ fs = <<>>
    /\ seen = {}
    /\ nResp = 0
    /\ nAck = 0
    /\ shutdownRequested = FALSE
    /\ monitor = Sleeping
    /\ conv = [c \in Calls |-> Untracked]
    /\ now = Midnight
    /\ ret = NoReturn

\* and no store file
Fresh ==
    /\ FreshCalls
    /\ store = EmptyStore
    /\ migrated = NothingMigrated
    /\ init = [j \in Inits |-> NotCalled]

\* the server serving with self._db = None (the rendezvous is followed
\* without its store)
Init == Fresh /\ dbs = Serving(None)

\* the steps of call c after call_tool has begun
Handle(c) ==
    \/ PublishWrite(c)
    \/ PublishExists(c)
    \/ PublishFinish(c)
    \/ AckPoll(c)
    \/ ResponsePoll(c)
    \/ TimeoutUpdate(c)
    \/ Return(c)

\* the MCP client makes one call
ClientCallsOnce(c) == \A d \in Calls : pc[d] = "idle" /\ c <= d

\* the MCP client makes its calls one at a time, in the order of their
\* numbers (the agent waits for the result of a call before it makes the
\* next one)
ClientCallsInTurn(c) ==
    /\ \A d \in Calls : pc[d] \in {"idle", "done"}
    /\ \A d \in Calls : d < c => pc[d] = "done"

\* One rendezvous, with everything the extensions may write.
Next ==
    \/ \E c \in Calls : ClientCallsOnce(c) /\ StartChat(c)
    \/ \E c \in Calls : Handle(c)
    \/ ExtConsumeTrigger
    \/ \E i \in 0..2 : ExtReadBackup(i)
    \/ \E t \in seen : \E body \in AckBodies : ExtAcknowledge(t, body)
    \/ \E t \in seen : \E i \in 1..4 : \E body \in ResponseBodies(t) : ExtRespond(t, i, body)
    \/ \E i \in {2, 4} : ForeignRespond(i)

Spec == Init /\ [][Next]_vars

\* A sequence of rendezvous, the extension acknowledging every trigger and
\* writing well-formed replies only.
SeqNext ==
    \/ \E c \in Calls : ClientCallsInTurn(c) /\ StartChat(c)
    \/ \E c \in Calls : Handle(c)
    \/ ExtConsumeTrigger
    \/ \E i \in 0..2 : ExtReadBackup(i)
    \/ \E t \in seen : ExtAcknowledge(t, JsonFile([acknowledged |-> JBool(TRUE)]))
    \/ \E t \in seen : \E i \in 1..4 : \E body \in ReplyBodies(t) : ExtRespond(t, i, body)

SeqSpec == Init /\ [][SeqNext]_vars

\* Calls handled concurrently (the MCP server starts a task for each request
\* it receives), the extension acknowledging every trigger and writing
\* well-formed replies at the trigger's own path.
ConcNext ==
    \/ \E c \in Calls : StartChat(c)
    \/ \E c \in Calls : Handle(c)
    \/ ExtConsumeTrigger
    \/ \E i \in 0..2 : ExtReadBackup(i)
    \/ \E t \in seen : ExtAcknowledge(t, JsonFile([acknowledged |-> JBool(TRUE)]))
    \/ \E t \in seen : \E body \in ReplyBodies(t) : ExtRespond(t, 1, body)

ConcSpec == Init /\ [][ConcNext]_vars

\* One rendezvous in the server of review_gate_mcp as run() starts it: the
\* call's task beside the task of _monitor_shutdown, and the lean extension.
\* The event loop keeps running both tasks.
ServeNext ==
    \/ \E c \in Calls : ClientCallsOnce(c) /\ StartChat(c)
    \/ \E c \in Calls : Handle(c)
    \/ MonitorShutdown
    \/ ExtConsumeTrigger
    \/ \E i \in 0..2 : ExtReadBackup(i)
    \/ \E t \in seen : ExtAcknowledge(t, JsonFile([acknowledged |-> JBool(TRUE)]))
    \/ \E t \in seen : \E body \in ReplyBodies(t) : ExtRespond(t, 1, body)

ServeSpec ==
    /\ Init /\ [][ServeNext]_vars
    /\ WF_vars(MonitorShutdown)
    /\ \A c \in Calls : WF_vars(Handle(c))

\* every migration applied once, no conversation yet
MigratedStore ==
    [schema |-> UNION {{<<m, k>> : k \in 1..Migrations[m]} : m \in Versions},
     recorded |-> Versions,
     convs |-> <<>>, sessions |-> <<>>, messages |-> <<>>, checkpoints |-> <<>>]

\* the server serving after a startup in which initialize() has applied all
\* migrations and get_database() has returned
ConvInit ==
    /\ FreshCalls
    /\ store = MigratedStore
    /\ migrated = [runs |-> [m \in Versions |-> 1], records |-> [m \in Versions |-> 1]]
    /\ init = [j \in Inits |->
                 IF j = 1 THEN [pc |-> "done", obj |-> "_db", version |-> 0,
                                m |-> Len(Migrations), k |-> 1,
                                fault |-> FALSE, after |-> FALSE]
                 ELSE NotCalled]
    /\ dbs = [Serving("_db") EXCEPT !.initialized["_db"] = TRUE]

\* Calls on one session, with their conversations and messages in the
\* store, which may fail at every statement, and an extension that answers
\* without acknowledging.
ConvNext ==
    \/ \E c \in Calls : BeginChat(c, <<"s1">>)
    \/ \E c \in Calls : Prefix(c)
    \/ \E c \in Calls : Handle(c)
    \/ ExtConsumeTrigger
    \/ \E t \in seen :
          ExtRespond(t, 1, JsonFile([user_input |-> JStr(<<"ok">>), trigger_id |-> JStr(t)]))

ConvSpec == ConvInit /\ [][ConvNext]_vars

\* A client of the Database on the sessions table, while the clock runs.
SessionNext ==
    \/ Tick
    \/ \E u \in SessionIds : ApiCreateSession(u)
    \/ \E t \in Windows : CleanupStaleSessions(t)

SessionSpec == ConvInit /\ [][SessionNext]_vars

\* A client of the Database creates sessions, sends their heartbeats and
\* runs both cleanups, while the clock runs.
HeartbeatNext ==
    \/ Tick
    \/ \E u \in SessionIds : ApiCreateSession(u)
    \/ \E u \in SessionIds : ApiUpdateSessionHeartbeat(u)
    \/ \E t \in Windows : CleanupStaleSessions(t)
    \/ \E a \in Ages : CleanupOldSessions(a)

HeartbeatSpec == ConvInit /\ [][HeartbeatNext]_vars

\* One review_gate_chat call, with or without a session_uuid, beside a
\* client that has created the session, while the clock runs.
ChatSessionNext ==
    \/ Tick
    \/ ApiCreateSession(<<"s1">>)
    \/ \E c \in Calls : \E u \in SessionArgs : ClientCallsOnce(c) /\ BeginChat(c, u)
    \/ \E c \in Calls : Prefix(c)
    \/ \E c \in Calls : Handle(c)

ChatSessionSpec == ConvInit /\ [][ChatSessionNext]_vars

\* A client of the Database adds messages to a conversation and reads them
\* back, while the clock moves a little.
MessageNext ==
    \/ /\ now.s < ShortClock
       /\ Tick
    \/ ApiCreateSession(<<"s1">>)
    \/ /\ <<"s1">> \in DOMAIN store.sessions
       /\ ApiCreateConversation(<<"s1">>)
    \/ \E id \in DOMAIN store.convs :
          \/ /\ Len(store.messages) < MaxStored
             /\ \E role \in Roles, attachments \in AttachmentArgs :
                   ApiAddMessage(id, role, <<"hello">>, attachments)
          \/ ApiGetMessages(id)

MessageSpec == ConvInit /\ [][MessageNext]_vars

\* A session with its conversation, messages and a checkpoint, the purge of
\* old sessions, and the history read once its session is gone.
PurgeNext ==
    \/ /\ now.s < ShortClock
       /\ Tick
    \/ ApiCreateSession(<<"s1">>)
    \/ /\ <<"s1">> \in DOMAIN store.sessions
       /\ ApiCreateConversation(<<"s1">>)
    \/ \E id \in DOMAIN store.convs :
          \/ /\ Len(store.messages) < MaxStored
             /\ ApiAddMessage(id, "user", <<"hello">>, JNull)
          \/ /\ store.convs[id].session \notin DOMAIN store.sessions
             /\ \/ ApiGetConversation(id)
                \/ ApiListCheckpoints(id)
    \/ /\ Len(store.checkpoints) < MaxSnapshots
       /\ \E name \in CheckpointNames :
             HandleCreateCheckpoint(<<"s1">>, name, <<"so far">>)
    \/ \E age_hours \in Ages : CleanupOldSessions(age_hours)

PurgeSpec == ConvInit /\ [][PurgeNext]_vars

\* A client asks for one prompt: a template of up to MaxPieces parts,
\* rendered with one of the sets of arguments.
TemplateNext ==
    /\ ret.op = "none"
    /\ \E segments \in Templates, arguments \in ArgumentSets :
          GetPrompt(segments, arguments)

TemplateSpec == ConvInit /\ [][TemplateNext]_vars

\* the lengths of the conversation at which the client takes a checkpoint
SnapshotsAt == {1, MaxHistory}

\* A long conversation: messages are added one by one, checkpoints are
\* taken through the tool after the first message and after the last, and
\* the conversation is completed.
CheckpointNext ==
    \/ ApiCreateSession(<<"s1">>)
    \/ /\ <<"s1">> \in DOMAIN store.sessions
       /\ ApiCreateConversation(<<"s1">>)
    \/ \E id \in DOMAIN store.convs :
          \/ /\ Len(store.messages) < MaxHistory
             /\ ApiAddMessage(id, "user", <<"hello">>, JNull)
          \/ ApiUpdateConversationStatus(id, "completed")
    \/ /\ Len(store.checkpoints) < MaxCheckpoints
       /\ Len(store.messages) \in SnapshotsAt
       /\ \E name \in CheckpointNames :
             HandleCreateCheckpoint(<<"s1">>, name, <<"so far">>)

CheckpointSpec == ConvInit /\ [][CheckpointNext]_vars

\* The tasks run() starts (the stdio server with one review_gate_chat call,
\* _monitor_shutdown and _heartbeat_logger) while the clock runs; the event
\* loop keeps running all of them.
ReapNext ==
    \/ Tick
    \/ \E c \in Calls : \E u \in SessionArgs : ClientCallsOnce(c) /\ BeginChat(c, u)
    \/ \E c \in Calls : Prefix(c)
    \/ \E c \in Calls : Handle(c)
    \/ MonitorShutdown
    \/ HeartbeatLogger

ReapSpec ==
    /\ ConvInit /\ [][ReapNext]_vars
    /\ WF_vars(Tick)
    /\ WF_vars(MonitorShutdown)
    /\ WF_vars(HeartbeatLogger)
    /\ \A c \in Calls : WF_vars(Prefix(c)) /\ WF_vars(Handle(c))

\* the process from its start
Startup == Fresh /\ dbs = Starting

\* The server from its start, beside another initialize() over the same
\* file; once it serves, one tool call (with no extension running) and one
\* resource read.
DbNext ==
    \/ GetDatabase
    \/ \E j \in Inits : InitializeAgain(j)
    \/ \E j \in Inits : InitializeStep(j)
    \/ \E j \in Inits : Stop(j)
    \/ DefaultTemplates
    \/ ContinueWithoutDatabase
    \/ ReadResource
    \/ \E c \in Calls : Serves /\ ClientCallsOnce(c) /\ StartChat(c)
    \/ \E c \in Calls : Handle(c)

DbSpec == Startup /\ [][DbNext]_vars

\* the event loop runs the tasks of the calls: not while the (synchronous)
\* cleanup runs, and not after _monitor_shutdown has returned and run() has
\* cancelled the other tasks
LoopServes == monitor.pc = "sleeping"

\* One rendezvous in a server that can be shut down (review_gate_v3_mcp.py),
\* with an extension that removes the trigger files it reads.
CleanNext ==
    \/ \E c \in Calls : LoopServes /\ ClientCallsOnce(c) /\ StartChat(c)
    \/ \E c \in Calls : LoopServes /\ Handle(c)
    \/ ExtConsumeTrigger
    \/ \E i \in 0..2 : ExtConsumeBackup(i)
    \/ ShutdownConfirmed
    \/ MonitorShutdown
    \/ CleanupExists
    \/ CleanupUnlink

CleanSpec == Init /\ [][CleanNext]_vars

\* One rendezvous on a running event loop: a call that is not waiting for
\* the client is a task that is ready or asleep on a timer, and the loop
\* runs it again.
FairSpec == Spec /\ \A c \in Calls : WF_vars(Handle(c))

\* Calls handled concurrently, the extension answering without
\* acknowledging and writing well-formed replies at the first generic path,
\* which the waits of all calls scan.
SharedNext ==
    \/ \E c \in Calls : StartChat(c)
    \/ \E c \in Calls : Handle(c)
    \/ ExtConsumeTrigger
    \/ \E t \in seen : \E body \in ReplyBodies(t) : ExtRespond(t, 2, body)

SharedSpec == Init /\ [][SharedNext]_vars

\* the keys a response document may carry its text under, in the order of
\* the lookup, and the text the extension puts under each
TextKeys == <<"user_input", "response", "message">>

KeyText(k) ==
    CASE k = "user_input" -> <<"u">>
      [] k = "response" -> <<"r">>
      [] OTHER -> <<"m">>

\* the attachments of a response document: none, an image, a text file
ResponseAttachments ==
    { <<>>,
      << JObj([mimeType |-> JStr(<<"image/", "png">>), fileName |-> JStr(<<"shot.png">>)]) >>,
      << JObj([mimeType |-> JStr(<<"text/", "plain">>), fileName |-> JStr(<<"notes.txt">>)]) >> }

\* the JSON response documents with any of the three keys, each holding its
\* text or white space only, and with or without attachments
KeyedBodies ==
    UNION { UNION { { JsonFile([k \in present |->
                                   JStr(IF k \in blank THEN <<" ">> ELSE KeyText(k))]),
                      JsonFile([k \in present |->
                                   JStr(IF k \in blank THEN <<" ">> ELSE KeyText(k))]
                               @@ [attachments |-> JList(atts)]) }
                    : atts \in ResponseAttachments \ {<<>>} }
            : present \in SUBSET Range(TextKeys), blank \in SUBSET Range(TextKeys) }

\* the response wait for trigger id t has begun
ResponseAwaited(t) == \E c \in Calls : pc[c] = "resp" /\ TidOf(c) = t

\* One rendezvous, the extension acknowledging the trigger and then writing
\* JSON documents of every shape at the trigger's own path and well-formed
\* replies at the first generic path.
KeyNext ==
    \/ \E c \in Calls : ClientCallsOnce(c) /\ StartChat(c)
    \/ \E c \in Calls : Handle(c)
    \/ ExtConsumeTrigger
    \/ \E t \in seen : ExtAcknowledge(t, JsonFile([acknowledged |-> JBool(TRUE)]))
    \/ \E t \in seen : \E body \in KeyedBodies :
          ResponseAwaited(t) /\ ExtRespond(t, 1, body)
    \/ \E t \in seen : \E body \in ReplyBodies(t) :
          ResponseAwaited(t) /\ ExtRespond(t, 2, body)

KeySpec == Init /\ [][KeyNext]_vars

----------------------------------------------------------------------------
(* Properties of the response wait *)

\* the candidate paths of trigger id t
Candidates(t) == Range(ResponsePatterns(t))

\* call c takes a step of its own (the extension changes none of callVars)
Steps(c) == pc[c] \notin {"idle", "done"} /\ callVars' # callVars

\* a JSON document whose embedded trigger_id is non-empty and differs from t
Mismatched(d, t) ==
    /\ d.fmt = "json"
    /\ "trigger_id" \in DOMAIN d.obj
    /\ d.obj.trigger_id.t = "str"
    /\ d.obj.trigger_id.v \notin {<<>>, t}

\* a JSON document with non-empty text whose trigger_id equals t or is absent
Matching(d, t) ==
    /\ d.fmt = "json"
    /\ "trigger_id" \in DOMAIN d.obj => d.obj.trigger_id = JStr(t)
    /\ "user_input" \in DOMAIN d.obj
    /\ d.obj.user_input.t = "str"
    /\ Strip(d.obj.user_input.v) # <<>>

\* C1: while a call scans for trigger id T, a JSON document at a candidate
\* path whose embedded trigger_id is non-empty and differs from T is neither
\* deleted nor returned by the scan; if in the same scan another candidate
\* holds a document with non-empty text whose trigger_id is T or absent, the
\* scan returns a response and the returned file is gone afterwards, and
\* when every other candidate is mismatched it is that document that is
\* returned, with its text.
MismatchLeftMatchConsumed ==
    [][\A c \in Calls :
         (Steps(c) /\ pc[c] = "resp" /\ ~Expired(c, ChatTimeout)) =>
           LET T == TidOf(c)
               there == {p \in Candidates(T) : Exists(fs, p)}
               mismatched == {p \in there : Mismatched(fs[p].doc, T)}
               matching == {p \in there : Matching(fs[p].doc, T)}
           IN  /\ \A p \in mismatched :
                     /\ Exists(fs', p) /\ fs'[p] = fs[p]
                     /\ respResult'[c].kind = "input" => respResult'[c].path # p
               /\ (mismatched # {} /\ matching # {}) =>
                     /\ respResult'[c].kind = "input"
                     /\ ~Exists(fs', respResult'[c].path)
                     /\ \A q \in matching :
                           there \ {q} \subseteq mismatched =>
                              /\ respResult'[c].path = q
                              /\ respResult'[c].file = fs[q]
                              /\ respResult'[c].user_input = Strip(fs[q].doc.obj.user_input.v)
                              /\ DOMAIN fs' = DOMAIN fs \ {q}
    ]_vars

\* C1's case: a response was returned from the last candidate path while the
\* generic path scanned before it holds a mismatched document
MismatchLeftMatchConsumedReached ==
    \E c \in Calls :
        /\ respResult[c].kind = "input"
        /\ respResult[c].path = ResponsePatterns(TidOf(c))[4]
        /\ Matching(respResult[c].file.doc, TidOf(c))
        /\ Exists(fs, ResponsePatterns(TidOf(c))[2])
        /\ Mismatched(fs[ResponsePatterns(TidOf(c))[2]].doc, TidOf(c))

\* the document embeds the trigger id it replies to
EmbedsTrigger(file) ==
    /\ file.doc.fmt = "json"
    /\ "trigger_id" \in DOMAIN file.doc.obj
    /\ file.doc.obj.trigger_id = JStr(file.replyTo)
    /\ file.replyTo # <<>>

\* C2 as stated: every response a rendezvous returns was written in reply
\* to that rendezvous's own trigger.
ReturnedReplyIsOwn ==
    \A c \in Calls :
        respResult[c].kind = "input" => respResult[c].file.replyTo = TidOf(c)

\* C2, amended: a response that embeds the trigger id it replies to is
\* returned only by the rendezvous of that trigger.
ReturnedTaggedReplyIsOwn ==
    \A c \in Calls :
        (respResult[c].kind = "input" /\ EmbedsTrigger(respResult[c].file)) =>
            respResult[c].file.replyTo = TidOf(c)

\* C2's case: a rendezvous has returned the tagged reply to its own trigger
\* while the tagged reply to an earlier trigger lies on a generic path
ReturnedTaggedReplyIsOwnReached ==
    \E c \in Calls :
        /\ respResult[c].kind = "input"
        /\ EmbedsTrigger(respResult[c].file)
        /\ \E p \in Candidates(TidOf(c)) :
              /\ Exists(fs, p)
              /\ EmbedsTrigger(fs[p])
              /\ fs[p].replyTo \notin {TidOf(c), ForeignTrigger}

\* b occurs in q only after a
Before(q, a, b) ==
    \A j \in DOMAIN q : q[j] = b => \E i \in 1..(j - 1) : q[i] = a

\* C3: in every call the acknowledgment wait starts only after the
\* publication has returned success, the response wait starts only after the
\* acknowledgment wait has returned, and no response document is read (nor a
\* response held) before the acknowledgment wait has ended.
AckWaitPrecedesResponseWait ==
    \A c \in Calls :
        /\ Before(events[c], "published", "ack_start")
        /\ Before(events[c], "ack_start", "ack_end")
        /\ Before(events[c], "ack_end", "resp_start")
        /\ Before(events[c], "ack_end", "resp_read")
        /\ Before(events[c], "resp_start", "resp_read")
        /\ "publish_failed" \in Range(events[c]) => "ack_start" \notin Range(events[c])
        /\ pc[c] = "ack" => "published" \in Range(events[c])
        /\ pc[c] = "resp" => ackResult[c] # "none"
        /\ ackResult[c] = "none" => respResult[c] = Pending

\* C3's case: a call has read a response document
AckWaitPrecedesResponseWaitReached ==
    \E c \in Calls : "resp_read" \in Range(events[c])

\* C4: when the acknowledgment wait returns False the call goes on to the
\* response wait, started afresh; that wait gives up only when the full
\* timeout has elapsed, and a qualifying response found before that yields
\* the success result.
NoAckStillAwaitsResponse ==
    [][\A c \in Calls :
         /\ (pc[c] = "ack" /\ ackResult'[c] = "false") =>
               /\ pc'[c] = "resp"
               /\ elapsed'[c] = 0
               /\ reply'[c] = Pending
         /\ (pc[c] = "resp" /\ ackResult[c] = "false" /\ pc'[c] # "resp") =>
               \/ /\ respResult'[c] = NoInput
                  /\ elapsed[c] >= ChatTimeout
               \/ /\ respResult'[c].kind = "input"
                  /\ reply'[c] = UserResponse(respResult'[c].user_input)
         /\ (/\ Steps(c) /\ pc[c] = "resp" /\ ackResult[c] = "false"
             /\ elapsed[c] < ChatTimeout
             /\ \E p \in Candidates(TidOf(c)) :
                   Exists(fs, p) /\ Matching(fs[p].doc, TidOf(c))) =>
               /\ pc'[c] = "replied"
               /\ Head(reply'[c].text) = "User Response: "
    ]_vars

\* C4's case: a call whose acknowledgment wait returned False has returned a
\* user response
NoAckStillAwaitsResponseReached ==
    \E c \in Calls :
        /\ ackResult[c] = "false"
        /\ respResult[c].kind = "input"
        /\ reply[c] = UserResponse(respResult[c].user_input)

----------------------------------------------------------------------------
(* Properties of the result and of the acknowledgment wait *)

\* C5: the result a call returns is a text that names the call's outcome:
\* "User Response" when a response was consumed, "TIMEOUT" when the response
\* wait expired, "ERROR: Failed to trigger" when the publication failed.
ResultNamesOutcome ==
    \A c \in Calls :
        pc[c] = "replied" =>
            /\ reply[c].kind = "content"
            /\ "resp_input" \in Range(events[c]) => Head(reply[c].text) = "User Response: "
            /\ "resp_timeout" \in Range(events[c]) => Head(reply[c].text) = "TIMEOUT: "
            /\ "publish_failed" \in Range(events[c]) =>
                  Head(reply[c].text) = "ERROR: Failed to trigger "

\* C6: a call whose response wait returned None returns the TIMEOUT result,
\* whatever the store did while the timeout was recorded.
TimeoutReturnsTimeoutResult ==
    \A c \in Calls :
        (pc[c] = "replied" /\ respResult[c] = NoInput) => reply[c] = TimeoutResponse

\* C7: when the acknowledgment wait has found no document by the time it
\* returns, it returns False and the time elapsed at the return lies in
\* [AckTimeout, AckTimeout + CheckInterval).
NoAckReturnsFalseAtTimeout ==
    [][\A c \in Calls :
         (pc[c] = "ack" /\ pc'[c] # "ack" /\ ~ackFound'[c]) =>
            /\ ackResult'[c] = "false"
            /\ AckTimeout <= elapsed[c]
            /\ elapsed[c] < AckTimeout + CheckInterval
    ]_vars

\* C7's case: an acknowledgment wait that found no document has returned
\* False
NoAckReturnsFalseAtTimeoutReached ==
    \E c \in Calls : pc[c] = "resp" /\ ackResult[c] = "false" /\ ~ackFound[c]

\* C8: the acknowledgment wait returns True only on reading a document
\* whose acknowledged field is the boolean true.
AckTrueOnlyOnBooleanTrue ==
    [][\A c \in Calls :
         (pc[c] = "ack" /\ ackResult'[c] = "true") =>
            /\ Exists(fs, AckPath(TidOf(c)))
            /\ fs[AckPath(TidOf(c))].doc.fmt = "json"
            /\ "acknowledged" \in DOMAIN fs[AckPath(TidOf(c))].doc.obj
            /\ fs[AckPath(TidOf(c))].doc.obj.acknowledged = JBool(TRUE)
    ]_vars

\* C9: a poll of the acknowledgment wait that finds the acknowledgment file
\* leaves no file at that path, whatever the file held.
AckFileDeletedOnRead ==
    [][\A c \in Calls :
         (/\ Steps(c) /\ pc[c] = "ack" /\ ~Expired(c, AckTimeout)
          /\ Exists(fs, AckPath(TidOf(c)))) =>
            ~Exists(fs', AckPath(TidOf(c)))
    ]_vars

\* C10: the response wait ends: whenever a call is in it, a moment follows
\* when none is (at most one call is in flight at a time); it returns None
\* only once the elapsed time has reached the timeout, and it polls no later
\* than the first poll at or after the timeout, whatever the candidates hold.
ResponseWaitTerminates ==
    /\ (\E c \in Calls : pc[c] = "resp") ~> (\A c \in Calls : pc[c] # "resp")
    /\ [](\A c \in Calls :
            /\ respResult[c] = NoInput => elapsed[c] >= ChatTimeout
            /\ pc[c] = "resp" => elapsed[c] < ChatTimeout + CheckInterval)

\* C10's case: the wait has returned None while a candidate path holds a
\* document that never qualified
ResponseWaitTerminatesReached ==
    \E c \in Calls :
        /\ respResult[c] = NoInput
        /\ \E p \in Candidates(TidOf(c)) :
              /\ Exists(fs, p)
              /\ ProcessResponse(fs[p].doc, TidOf(c)).act = "skip"

----------------------------------------------------------------------------
(* Properties of the publication *)

\* C11: any two calls that have published their trigger hold distinct
\* trigger ids.
TriggerIdsDistinct ==
    \A c \in Calls : \A d \in Calls \ {c} :
        ("published" \in Range(events[c]) /\ "published" \in Range(events[d])) =>
            TidOf(c) # TidOf(d)

----------------------------------------------------------------------------
(* Properties of the cleanup *)

\* C13: every trigger document the server wrote, as long as the extension
\* reads none, is eventually deleted by the server.
TriggerFilesEventuallyDeleted ==
    \A i \in 1..Len(TempFiles) :
        (Exists(fs, TempFiles[i]) /\ seen = {})
            ~> (~Exists(fs, TempFiles[i]) \/ seen # {})

\* C14: a finished cleanup has raised nothing into its caller and leaves none
\* of the four trigger documents behind, also when the extension deleted one
\* of them between the existence check and the delete.
CleanupRemovesTheRest ==
    monitor.pc = "done" => \A i \in 1..Len(TempFiles) : ~Exists(fs, TempFiles[i])

----------------------------------------------------------------------------
(* Properties of the migrations *)

\* initialize() call j takes a step
Initializing(j) == init'[j] # init[j] /\ init'[j].pc # "stopped"

\* C15: an initialize() that is called after another one has returned, on the
\* same object or on another object over the same file, and that meets no
\* store failure, changes neither the schema nor schema_migrations, applies
\* and records no migration, and does not raise.
SecondInitializeIsNoOp ==
    [][\A j \in Inits :
         (init[j].after /\ Initializing(j) /\ ~init'[j].fault) =>
            /\ store' = store
            /\ migrated' = migrated
            /\ init'[j].pc # "failed"
    ]_vars

\* C15's case: an initialize() on a new object has returned after another
\* one had returned; it read the version of the last migration
SecondInitializeReached ==
    \E j \in Inits : \E h \in Inits \ {j} :
        /\ init[j].after
        /\ init[j].pc = "done"
        /\ ~init[j].fault
        /\ init[j].obj # init[h].obj
        /\ init[j].version = Len(Migrations)
        /\ store.recorded = Versions

\* C16: when no initialize() meets a store failure or is stopped, each
\* migration is executed at most once and recorded at most once.
EachMigrationAtMostOnce ==
    (\A j \in Inits : ~init[j].fault /\ init[j].pc # "stopped") =>
        \A m \in Versions : migrated.runs[m] <= 1 /\ migrated.records[m] <= 1

\* C17: the versions in schema_migrations are 1..N for some N, and every
\* statement of a recorded migration has been executed.
RecordedIsPrefixWithTables ==
    /\ \E n \in 0..Len(Migrations) : store.recorded = 1..n
    /\ \A m \in store.recorded : \A k \in 1..Migrations[m] : <<m, k>> \in store.schema

\* C17's case: an initialize() has failed or was stopped inside a migration,
\* after earlier migrations were recorded
PartlyMigratedReached ==
    \E j \in Inits :
        /\ init[j].pc \in {"failed", "stopped"}
        /\ store.recorded # {}
        /\ \E m \in Versions \ store.recorded :
              /\ <<m, 1>> \in store.schema
              /\ <<m, Migrations[m]>> \notin store.schema

\* C18: when the initialize() of the startup has failed, the server serves
\* nothing: no tool call is taken, no resource is read.
MigrationFailureAbortsStartup ==
    init[1].pc = "failed" =>
        /\ ~Serves
        /\ \A c \in Calls : pc[c] = "idle"
        /\ dbs.resource = NoResource

----------------------------------------------------------------------------
(* Properties of the conversations *)

\* C19: a call whose session, conversation or message step met a failing or
\* absent store publishes all the same and returns the result of a
\* rendezvous outcome (a user response, the timeout, the publish failure),
\* never the error text of a failed tool.
DegradedCallEndsInOutcome ==
    \A c \in Calls :
        (conv[c].tracked /\ conv[c].degraded) =>
            /\ pc[c] \notin {"idle", "conv_lookup", "conv_create", "add_message"} =>
                  "called" \in Range(events[c])
            /\ pc[c] = "replied" =>
                  Head(reply[c].text) \in
                      {"User Response: ", "TIMEOUT: ", "ERROR: Failed to trigger "}

\* C20: no two conversations of one session_uuid are both active.
OneActiveConversationPerSession ==
    \A i \in DOMAIN store.convs : \A j \in DOMAIN store.convs :
        (i # j /\ store.convs[i].session = store.convs[j].session) =>
            ~(store.convs[i].status = "active" /\ store.convs[j].status = "active")

\* C20's case: two calls run on the same session; one has created the
\* session's conversation, still active, and the other, whose lookup did not
\* see it, has been refused its own
SecondConversationRefusedReached ==
    \E c \in Calls : \E d \in Calls \ {c} :
        /\ conv[c].session = <<"s1">>
        /\ conv[d].session = <<"s1">>
        /\ conv[c].id = Uuid("conversation", c)
        /\ conv[d].id = Uuid("ephemeral", d)
        /\ ActiveOf(store, <<"s1">>) = {conv[c].id}
        /\ pc[d] = "resp"

\* the prefix of call c is over: its conversation_id is set
Bound(c) == conv[c].tracked /\ pc[c] \notin {"idle", "conv_lookup", "conv_create"}

\* C21: a call that met no store failure is bound to a conversation that
\* exists in the store and belongs to its session.
CallBoundToStoredConversation ==
    \A c \in Calls :
        (Bound(c) /\ ~conv[c].fault) =>
            /\ conv[c].id \in DOMAIN store.convs
            /\ store.convs[conv[c].id].session = conv[c].session

----------------------------------------------------------------------------
(* Properties of the sessions *)

\* C23: cleanup_stale_sessions(t) marks exactly the active sessions whose
\* heartbeat is more than t seconds old, changes no other session, and
\* returns how many it marked.
StaleCleanupCountsMarked ==
    [][(ret' # ret /\ ret'.op = "cleanup_stale_sessions") =>
          LET old == {u \in DOMAIN store.sessions :
                         /\ store.sessions[u].status = "active"
                         /\ \E t \in 0..MaxNow : \E us \in {0, 1} :
                               /\ store.sessions[u].heartbeat_at = IsoFormat([s |-> t, us |-> us])
                               /\ \/ now.s - t > ret'.arg
                                  \/ now.s - t = ret'.arg /\ now.us > us}
          IN  /\ DOMAIN store'.sessions = DOMAIN store.sessions
              /\ \A u \in DOMAIN store.sessions :
                    store'.sessions[u] =
                        IF u \in old THEN [store.sessions[u] EXCEPT !.status = "stale"]
                        ELSE store.sessions[u]
              /\ ret'.value = Cardinality(old)
    ]_vars

\* call c has just passed its session step
SessionStepOf(c) == pc[c] = "idle" /\ pc'[c] = "conv_lookup"

\* C29: the session step of a call that was given a session_uuid keeps that
\* uuid and, unless the store fails, sets the heartbeat_at of the session's
\* row to the present time and changes nothing else; the session step of a
\* call without one adds an active session row with a new uuid whose
\* heartbeat_at is its created_at, the present time, or, when the store fails,
\* takes a new uuid and leaves the store alone.
SessionKeptOrCreated ==
    [][\A c \in Calls : SessionStepOf(c) =>
          LET uuid == conv'[c].session
          IN  IF uuid \in SessionArgs
              THEN IF conv'[c].fault \/ uuid \notin DOMAIN store.sessions
                   THEN store' = store
                   ELSE store' = [store EXCEPT
                                     !.sessions[uuid].heartbeat_at = IsoFormat(now)]
              ELSE /\ uuid \notin DOMAIN store.sessions
                   /\ \A d \in Calls \ {c} : conv[d].session # uuid
                   /\ IF conv'[c].fault
                      THEN store' = store
                      ELSE /\ DOMAIN store'.sessions = DOMAIN store.sessions \cup {uuid}
                           /\ store'.sessions[uuid] =
                                 [created_at |-> IsoFormat(now),
                                  heartbeat_at |-> IsoFormat(now),
                                  status |-> "active"]
                           /\ \A u \in DOMAIN store.sessions :
                                 store'.sessions[u] = store.sessions[u]
                           /\ store'.convs = store.convs
    ]_vars

\* C29's case: a call was given the uuid of a session created earlier, and
\* the session's heartbeat_at is now later than its created_at
HeartbeatRefreshedReached ==
    \E c \in Calls :
        /\ pc[c] = "conv_lookup"
        /\ conv[c].session = <<"s1">>
        /\ ~conv[c].fault
        /\ <<"s1">> \in DOMAIN store.sessions
        /\ store.sessions[<<"s1">>].heartbeat_at = IsoFormat(now)
        /\ TextLess(store.sessions[<<"s1">>].created_at, IsoFormat(now))

\* C24: while the server runs, an active session whose heartbeat is older
\* than the liveness window is eventually marked stale or deleted.
StaleSessionEventuallyReaped ==
    \A c \in Calls :
        LET uuid == Uuid("session", c)
        IN  (/\ uuid \in DOMAIN store.sessions
             /\ uuid \in StaleAt(store, IsoFormat(Ago(now, StaleWindow))))
                ~> (uuid \notin DOMAIN store.sessions
                    \/ store.sessions[uuid].status # "active")

----------------------------------------------------------------------------
(* Properties of the stored history *)

\* the conversations whose session is not (or no longer) in st
Orphans(st) == {id \in DOMAIN st.convs : st.convs[id].session \notin DOMAIN st.sessions}

\* C25: a step that deletes session rows (only cleanup_old_sessions does)
\* leaves every conversation, message and checkpoint row as it was, and for
\* each conversation of a deleted session get_conversation, get_messages
\* and list_checkpoints return what they returned before the step.
PurgeDeletesOnlySessions ==
    [][(DOMAIN store.sessions \ DOMAIN store'.sessions # {}) =>
          /\ store'.convs = store.convs
          /\ store'.messages = store.messages
          /\ store'.checkpoints = store.checkpoints
          /\ \A id \in {i \in DOMAIN store.convs :
                        store.convs[i].session \notin DOMAIN store'.sessions} :
                /\ GetConversation(store', id) # <<>>
                /\ GetConversation(store', id) = GetConversation(store, id)
                /\ \A scan \in Scans :
                      /\ GetMessages(store', id, DefaultLimit, 0, scan)
                            = GetMessages(store, id, DefaultLimit, 0, scan)
                      /\ ListCheckpoints(store', id, scan)
                            = ListCheckpoints(store, id, scan)]_vars

\* cleanup_old_sessions has deleted the session of a conversation that has
\* a message and a checkpoint
PurgedSessionReached ==
    /\ ret.op = "cleanup_old_sessions"
    /\ \E id \in Orphans(store) :
          /\ \E i \in DOMAIN store.messages : store.messages[i].conversation_id = id
          /\ \E k \in DOMAIN store.checkpoints :
                /\ store.checkpoints[k].conversation_id = id
                /\ Loads(store.checkpoints[k].snapshot_data).v.messages.v # <<>>

\* C26: whenever add_message has added a message to a conversation,
\* get_messages returns the messages it returned before followed by the new
\* one, with the role and content that were passed and, when a list of
\* attachments was passed, an attachments value equal to that list.
MessagesReadBackAsAdded ==
    [][Len(store'.messages) = Len(store.messages) + 1 =>
          LET arg == ret'.arg
          IN  \A scan \in Scans :
                LET before == GetMessages(store, arg.conversation_id, DefaultLimit, 0, scan)
                    after == GetMessages(store', arg.conversation_id, DefaultLimit, 0, scan)
                IN  /\ Len(after) = Len(before) + 1
                    /\ SubSeq(after, 1, Len(before)) = before
                    /\ after[Len(after)].role = arg.role
                    /\ after[Len(after)].content = arg.content
                    /\ arg.attachments.t = "list" =>
                          after[Len(after)].attachments = arg.attachments]_vars

----------------------------------------------------------------------------
(* Properties of the prompt templates *)

\* get_prompt has rendered the template of these parts with these arguments
Rendered(segments, arguments) ==
    /\ ret.op = "get_prompt"
    /\ ret.arg.segments = segments
    /\ ret.arg.arguments = arguments

\* "Hi {{name}}{{#if urgent}} U+2014 URGENT{{/if}}"
UrgentTemplate ==
    <<Text(<<"Hi", " ">>), Var("name"),
      Block("urgent", <<Text(<<" ", "U+2014", " ", "URGENT">>)>>)>>

Ana == [name |-> JStr(<<"Ana">>)]

UrgentAna == [name |-> JStr(<<"Ana">>), urgent |-> JBool(TRUE)]

\* C27, as stated: the template rendered with {name: "Ana", urgent: true}
\* is "Hi Ana U+2014 URGENT", and rendered with {name: "Ana"} it is "Hi Ana".
UrgentScenarioAsStated ==
    /\ Rendered(UrgentTemplate, UrgentAna) =>
          ret.value = <<"Hi", " ", "Ana", " ", "U+2014", " ", "URGENT">>
    /\ Rendered(UrgentTemplate, Ana) => ret.value = <<"Hi", " ", "Ana">>

\* C27, amended: the template rendered with {name: "Ana", urgent: true} is
\* "Hi AnaU+2014 URGENT", the block's content without the space that leads
\* it, and rendered with {name: "Ana"} it is "Hi Ana".
UrgentScenario ==
    /\ Rendered(UrgentTemplate, UrgentAna) =>
          ret.value = <<"Hi", " ", "Ana", "U+2014", " ", "URGENT">>
    /\ Rendered(UrgentTemplate, Ana) => ret.value = <<"Hi", " ", "Ana">>

UrgentScenarioReached == Rendered(UrgentTemplate, UrgentAna)

\* what a {{key}} marker is replaced by: the string form of the argument,
\* JSON for a list or an object, and nothing when the key is absent
ExpectedVar(k, arguments) ==
    IF k \notin DOMAIN arguments THEN <<>>
    ELSE IF arguments[k].t \in {"list", "obj"} THEN JsonText(arguments[k])
    ELSE Str(arguments[k])

\* parts without the whitespace that leads them
RECURSIVE LStripParts(_)
LStripParts(segs) ==
    IF segs = <<>> \/ Head(segs).seg # "text" THEN segs
    ELSE IF LStrip(Head(segs).text) = <<>> THEN LStripParts(Tail(segs))
    ELSE <<Text(LStrip(Head(segs).text))>> \o Tail(segs)

\* parts without the whitespace that ends them
RECURSIVE RStripParts(_)
RStripParts(segs) ==
    IF segs = <<>> \/ segs[Len(segs)].seg # "text" THEN segs
    ELSE IF RStrip(segs[Len(segs)].text) = <<>>
         THEN RStripParts(SubSeq(segs, 1, Len(segs) - 1))
    ELSE SubSeq(segs, 1, Len(segs) - 1) \o <<Text(RStrip(segs[Len(segs)].text))>>

\* the rendering of parts, part by part: a block is dropped when its key is
\* absent or falsy and else gives its trimmed content, a marker gives its
\* argument, text stays
RECURSIVE Expected(_, _)
Expected(segs, arguments) ==
    IF segs = <<>> THEN <<>>
    ELSE LET head == Head(segs)
         IN  (CASE head.seg = "text" -> head.text
                [] head.seg = "var" -> ExpectedVar(head.key, arguments)
                [] OTHER ->
                     IF head.key \in DOMAIN arguments /\ Truthy(arguments[head.key])
                     THEN Expected(RStripParts(LStripParts(head.inner)), arguments)
                     ELSE <<>>)
             \o Expected(Tail(segs), arguments)

\* C28, as stated: the rendering is the two passes and nothing else; text
\* outside blocks and markers is unchanged.
RenderingIsTwoPasses ==
    ret.op = "get_prompt" =>
        ret.value = Expected(ret.arg.segments, ret.arg.arguments)

\* C28, amended: the rendering is the two passes, and then the whole result
\* trimmed of leading and trailing whitespace.
RenderingIsTwoPassesTrimmed ==
    ret.op = "get_prompt" =>
        ret.value = Strip(Expected(ret.arg.segments, ret.arg.arguments))

\* a template that starts with a space, with a kept block that holds a
\* marker, a dropped block and a list argument
TrimmedRenderingReached ==
    /\ ret.op = "get_prompt"
    /\ ret.arg.segments =
          <<Text(<<" ">>), Block("name", <<Text(<<"\n">>), Var("name"), Text(<<" ">>)>>),
            Var("tags")>>
    /\ ret.arg.arguments =
          [name |-> JStr(<<"Ana">>),
           tags |-> JList(<<JStr(<<"a">>), JStr(<<"b">>)>>)]
    /\ ret.value = <<"Ana", "[", "\"", "a", "\"", ", ", "\"", "b", "\"", "]">>

----------------------------------------------------------------------------
(* Properties of the checkpoints *)

\* C30: no step changes or removes a stored checkpoint, and a step that
\* stores a checkpoint stores, as its messages, all the messages the
\* conversation has at that time.
CheckpointsAreFullAndFixed ==
    [][/\ \A k \in DOMAIN store.checkpoints :
             /\ k \in DOMAIN store'.checkpoints
             /\ store'.checkpoints[k] = store.checkpoints[k]
       /\ Len(store'.checkpoints) = Len(store.checkpoints) + 1 =>
             \A taken \in {store'.checkpoints[Len(store'.checkpoints)]} :
                \A all \in {GetMessages(store, taken.conversation_id,
                                         Len(store.messages), 0, "rowid")} :
                   Range(Loads(taken.snapshot_data).v.messages.v)
                      = {MessageDict(all[i]) : i \in DOMAIN all}]_vars

----------------------------------------------------------------------------
(* Properties of the publication: verification and backups *)

\* C31: the publication fails only when the canonical write fails: once
\* the write has succeeded, every later step of the publication goes on
\* towards success, whether the canonical document is still there or the
\* extension has removed it, before the existence check or before the size
\* check.
PublicationSucceedsIffWritten ==
    [][\A c \in Calls :
          /\ (pc[c] = "pub_write" /\ pc'[c] # "pub_write") =>
                \/ pc'[c] = "pub_exists"
                \/ reply'[c] = TriggerFailedResponse
          /\ (pc[c] \in {"pub_exists", "pub_stat"} /\ pc'[c] # pc[c]) =>
                /\ pc'[c] \in {"pub_stat", "ack"}
                /\ reply'[c] = reply[c]]_vars

\* the `data` member of a trigger or backup document, as json.loads reads it
DataOf(doc) == Loads(doc.text).v.data

----------------------------------------------------------------------------
(* Properties of the response wait: what a scan does with a candidate *)

\* call c makes a step of its response wait that scans every candidate and
\* goes to sleep
ScansAndSleeps(c) ==
    /\ pc[c] = "resp"
    /\ pc'[c] = "resp"
    /\ elapsed'[c] # elapsed[c]

\* C33: a scan of the response wait that finds a candidate document that
\* starts with "{" and is not valid JSON deletes that document: it is not
\* there when the scan has ended, and so not at the next poll.
MalformedResponseDeleted ==
    [][\A c \in Calls :
          ScansAndSleeps(c) =>
              \A p \in Candidates(TidOf(c)) :
                  (Exists(fs, p) /\ fs[p].doc = BadJsonFile) => ~Exists(fs', p)]_vars

\* the text under the first of the three keys that the object has ("" when
\* it has none of them)
FirstPresent(o) ==
    IF \E i \in DOMAIN TextKeys : TextKeys[i] \in DOMAIN o
    THEN o[TextKeys[CHOOSE i \in DOMAIN TextKeys :
                       /\ TextKeys[i] \in DOMAIN o
                       /\ \A j \in 1..(i - 1) : TextKeys[j] \notin DOMAIN o]].v
    ELSE <<>>

\* call c's response wait returns a JSON document on this step
ReturnsJson(c) ==
    /\ pc[c] = "resp"
    /\ respResult'[c] # respResult[c]
    /\ respResult'[c].kind = "input"
    /\ respResult'[c].file.doc.fmt = "json"

\* C34: the text returned for a JSON response document is the text under
\* the first of user_input, response, message that the document has (with
\* the descriptor of its image attachments appended): response is used only
\* when there is no user_input, message only when there is neither.
FirstPresentKeySuppliesText ==
    [][\A c \in Calls :
          ReturnsJson(c) =>
              LET o == respResult'[c].file.doc.obj
              IN  /\ respResult'[c].user_input =
                        WithAttachments(Strip(FirstPresent(o)),
                                        Get(o, "attachments", JList(<<>>)))
                  /\ reply'[c] = UserResponse(respResult'[c].user_input)]_vars

\* the text under response has been returned for a document without
\* user_input and with message
ResponseKeyUsedReached ==
    \E c \in Calls :
        /\ respResult[c].kind = "input"
        /\ respResult[c].file.doc.fmt = "json"
        /\ DOMAIN respResult[c].file.doc.obj = {"response", "message"}
        /\ respResult[c].user_input = KeyText("response")

\* C35: a JSON response document whose extracted text is empty is never
\* returned, with or without attachments.
EmptyTextNeverReturned ==
    [][\A c \in Calls :
          ReturnsJson(c) =>
              Strip(FirstPresent(respResult'[c].file.doc.obj)) # <<>>]_vars

\* the calls whose response wait has returned a document
Delivered == {c \in Calls : respResult[c].kind = "input"}

\* call c's response wait returns a document on this step
ReturnsInput(c) ==
    /\ pc[c] = "resp"
    /\ respResult'[c] # respResult[c]
    /\ respResult'[c].kind = "input"

\* C36: with response waits running concurrently for different trigger
\* ids, a document at a generic path is delivered to at most one of them:
\* the step that returns it removes it, no other wait returns on that step,
\* and no more documents have been returned than were written.
SharedReplyDeliveredOnce ==
    [][\A c \in Calls :
          (ReturnsInput(c) /\ \A d \in Calls \ {c} : tid'[d] # tid'[c]) =>
              /\ ~Exists(fs', respResult'[c].path)
              /\ \A d \in Calls \ {c} : respResult'[d] = respResult[d]
              /\ Cardinality(Delivered') <= nResp']_vars

\* one document was written at the generic path while two waits for
\* different trigger ids were scanning it; one wait read it and left it, the
\* other returned it
SharedReplyReached ==
    \E c \in Calls : \E d \in Calls \ {c} :
        /\ tid[c] # tid[d]
        /\ nResp = 1
        /\ respResult[c].kind = "input"
        /\ respResult[c].path = ResponsePatterns(TidOf(c))[2]
        /\ respResult[d].kind # "input"
        /\ "resp_read" \in Range(events[d])

----------------------------------------------------------------------------
(* Properties of the conversations and messages of concurrent calls *)

\* call c is running with its conversation_id set
InFlightBound(c) == Bound(c) /\ pc[c] \notin {"replied", "done"}

\* C37: two review_gate_chat calls that run at the same time on one
\* session_uuid and meet no store failure are bound to the same conversation
\* id, and every message stored is stored under that conversation.
ConcurrentCallsShareConversation ==
    \A c \in Calls : \A d \in Calls \ {c} :
        (/\ InFlightBound(c) /\ InFlightBound(d)
         /\ conv[c].session = conv[d].session
         /\ ~conv[c].fault /\ ~conv[d].fault) =>
            /\ conv[c].id = conv[d].id
            /\ \A i \in DOMAIN store.messages :
                  store.messages[i].conversation_id = conv[c].id

\* C38: every message row refers to a conversation row that exists.
MessagesReferToConversations ==
    \A i \in DOMAIN store.messages :
        store.messages[i].conversation_id \in DOMAIN store.convs

----------------------------------------------------------------------------
(* Properties of get_database and of the session status *)

\* C39: a get_database() call never hands out a Database whose initialize()
\* has not completed: the instance a resource read got is initialized.
GetDatabaseReturnsInitialized ==
    dbs.resource # NoResource => dbs.initialized[dbs.resource.db]

\* update_session_heartbeat has just run
HeartbeatStep == now' = now /\ ret'.op = "update_session_heartbeat" /\ vars' # vars

\* C40: a session row never goes from stale back to active (its status
\* changes only from active to stale), and update_session_heartbeat changes
\* nothing but the heartbeat_at of the session it is given: status and
\* created_at of that session, every other session and the set of rows stay
\* as they are, and an unknown uuid adds no row.
SessionStatusOnlyTowardsStale ==
    [][/\ \A u \in DOMAIN store.sessions \cap DOMAIN store'.sessions :
             store'.sessions[u].status # store.sessions[u].status =>
                 /\ store.sessions[u].status = "active"
                 /\ store'.sessions[u].status = "stale"
       /\ HeartbeatStep =>
             /\ DOMAIN store'.sessions = DOMAIN store.sessions
             /\ \A u \in DOMAIN store.sessions :
                   /\ store'.sessions[u].status = store.sessions[u].status
                   /\ store'.sessions[u].created_at = store.sessions[u].created_at
                   /\ store'.sessions[u].heartbeat_at =
                         IF u = ret'.arg THEN IsoFormat(now)
                         ELSE store.sessions[u].heartbeat_at
             /\ store'.convs = store.convs
             /\ store'.messages = store.messages]_vars

\* a session marked stale has had a later heartbeat and is stale still
StaleSessionHeartbeatReached ==
    /\ ret.op = "update_session_heartbeat"
    /\ ret.arg \in DOMAIN store.sessions
    /\ store.sessions[ret.arg].status = "stale"
    /\ store.sessions[ret.arg].heartbeat_at = IsoFormat(now)
    /\ store.sessions[ret.arg].heartbeat_at # store.sessions[ret.arg].created_at

====
